---- MODULE Spec2Model ----
(***************************************************************************)
(* A model of vllm/model_executor/models/plamo2.py: the PLaMo2 hybrid      *)
(* decoder (Mamba mixers interleaved with attention layers).               *)
(*                                                                         *)
(* The module holds one specification per component of the file:           *)
(*   SpecBuild : Plamo2ForCausalLM.__init__ (layer-type scheduling and     *)
(*               the construction of the decoder layers);                  *)
(*   SpecStack : Plamo2Model.forward and the two decoder layers' forward,  *)
(*               run by a single process and by a two-shard pipeline on    *)
(*               the same input;                                           *)
(*   SpecLoad  : Plamo2ForCausalLM.load_weights on one pipeline shard,     *)
(*               reading a checkpoint stream tensor by tensor;             *)
(*   SpecMixer : Plamo2MambaMixer.forward, called again and again on       *)
(*               batches of sequences that live in slots of the cache;     *)
(*   SpecCache : Plamo2ForCausalLM.forward, called again and again on one  *)
(*               instance, and the cache manager it creates.               *)
(* Tensors are integer arrays; arithmetic on activations is done modulo    *)
(* Modulus so that the state space stays finite.                           *)
(***************************************************************************)
EXTENDS Integers, Sequences, FiniteSets, TLC

VARIABLES
    phase,              \* which component's state machine is running
    config,             \* PlamoConfig plus the parallel/cache configuration
    pc,                 \* position inside Plamo2ForCausalLM.__init__
    layers_block_type,  \* config.layers_block_type (<<>> while not assigned)
    block_type_set,     \* TRUE once config.layers_block_type has been assigned
    layers,             \* Plamo2Model.layers built so far, one kind tag per index
    err,                \* the assertion that aborted construction ("" if none)
    embeds,             \* the embedded input of the forward pass under study
    proc,               \* per process: the locals of Plamo2Model.forward
    msg,                \* the IntermediateTensors in flight between two shards
    tie_word_embeddings,\* config.tie_word_embeddings
    per_head,           \* the per-head values stored in the checkpoint
    weights,            \* the checkpoint tensors load_weights has not read yet
    params,             \* runtime Parameter name -> value (NoTensor: not hydrated)
    hydrated,           \* runtime Parameter name -> number of hydrations
    load_pc,            \* "loading", "returned" or "error"
    load_last,          \* what load_weights did with the last tensor it read
    conv_state,         \* mamba_cache_params.conv_state: slot -> channel -> window
    ssm_state,          \* mamba_cache_params.ssm_state: slot -> channel -> state
    seq_tokens,         \* per sequence: the hidden states of its tokens
    seq_slot,           \* per sequence: its slot in the cache
    seq_done,           \* per sequence: how many tokens have been through forward
    seq_streamed,       \* per sequence: every call so far ran streaming-decode
    seq_out,            \* per sequence: the outputs of forward, token by token
    seq_seeded,         \* per sequence: its first call found or made clean rows
    mix_last,           \* per sequence, what its last forward call ran
    mamba_cache,        \* self.mamba_cache: <<>> for None, or <<the manager>>
    constructed,        \* the MambaCacheManagers constructed so far
    forward_log         \* the calls on the instance so far, oldest first

buildVars == <<config, pc, layers_block_type, block_type_set, layers, err>>

stackVars == <<embeds, proc, msg>>

loadVars == <<tie_word_embeddings, per_head, weights, params, hydrated,
              load_pc, load_last>>

mixerVars == <<conv_state, ssm_state, seq_tokens, seq_slot, seq_done,
               seq_streamed, seq_out, seq_seeded, mix_last>>

cacheVars == <<mamba_cache, constructed, forward_log>>

nonBuildVars == <<stackVars, loadVars, mixerVars, cacheVars>>

nonStackVars == <<buildVars, loadVars, mixerVars, cacheVars>>

nonLoadVars == <<buildVars, stackVars, mixerVars, cacheVars>>

nonMixerVars == <<buildVars, stackVars, loadVars, cacheVars>>

nonCacheVars == <<buildVars, stackVars, loadVars, mixerVars>>

vars == <<phase, buildVars, stackVars, loadVars, mixerVars, cacheVars>>

\* The variables of a component that the running specification does not use.
StackIdle == embeds = <<>> /\ proc = <<>> /\ msg = <<>>

LoadIdle ==
    /\ tie_word_embeddings = FALSE
    /\ per_head = <<>>
    /\ weights = <<>>
    /\ params = <<>>
    /\ hydrated = <<>>
    /\ load_pc = ""
    /\ load_last = <<>>

MixerIdle ==
    /\ conv_state = <<>>
    /\ ssm_state = <<>>
    /\ seq_tokens = <<>>
    /\ seq_slot = <<>>
    /\ seq_done = <<>>
    /\ seq_streamed = <<>>
    /\ seq_out = <<>>
    /\ seq_seeded = <<>>
    /\ mix_last = <<>>

CacheIdle == mamba_cache = <<>> /\ constructed = <<>> /\ forward_log = <<>>

----------------------------------------------------------------------------
(* Bounds of the model. *)

MaxLayers == 5
MaxStep == 6
MaxExperts == 2
MaxHeads == 4
MaxKVHeads == 3
MaxTP == 2
MaxPP == 2
MaxStackLayers == 8
Width == 2
Modulus == 5
LoadLayers == 2
NumHeads == 2
HeadWidth == 2
DState == 2
DConv == 3
TimeStepRank == 2
NumSlots == 3
MaxSeqLen == 3
MaxForwards == 3

\* Python's None for an Optional[int] field.
None == 0 - 1

----------------------------------------------------------------------------
(* PlamoConfig and the surrounding VllmConfig fields the file reads. *)

Configs ==
    [ num_hidden_layers     : 1..MaxLayers,
      mamba_step            : 0..MaxStep,
      n_expert              : {None} \cup (1..MaxExperts),
      enable_prefix_caching : BOOLEAN,
      num_attention_heads   : 1..MaxHeads,
      num_key_value_heads   : 1..MaxKVHeads,
      tp_size               : 1..MaxTP,
      pp_size               : 1..MaxPP,
      pp_rank               : 0..(MaxPP - 1) ]

ValidParallel(c) == c.pp_rank < c.pp_size

----------------------------------------------------------------------------
(* is_mamba (plamo2.py:189-195).  The assertion is modelled by             *)
(* is_mamba_asserts; is_mamba gives the value returned when it passes.     *)

\* Variant: the assertion admits a period of 1.
is_mamba_asserts_ge1(c) == c.mamba_step > 0

is_mamba_asserts(c) == c.mamba_step > 1

\* Variant: the shallow-stack test is strict.
is_mamba_strict(c, i) ==
    IF c.num_hidden_layers < (c.mamba_step \div 2)
    THEN i # c.num_hidden_layers - 1
    ELSE (i % c.mamba_step) # (c.mamba_step \div 2)

\* Variant: the shallow-stack test reads the attention head count.
is_mamba_heads(c, i) ==
    IF c.num_attention_heads <= (c.mamba_step \div 2)
    THEN i # c.num_hidden_layers - 1
    ELSE (i % c.mamba_step) # (c.mamba_step \div 2)

is_mamba(c, i) ==
    IF c.num_hidden_layers <= (c.mamba_step \div 2)
    THEN i # c.num_hidden_layers - 1
    ELSE (i % c.mamba_step) # (c.mamba_step \div 2)

\* The comprehension of Plamo2ForCausalLM.__init__ (plamo2.py:735-738).
BlockTypeList(c) ==
    [ k \in 1..c.num_hidden_layers |->
        IF is_mamba(c, k - 1) THEN "mamba" ELSE "attention" ]

----------------------------------------------------------------------------
(* make_layers (vllm.model_executor.models.utils): the contiguous range of *)
(* layers owned by this pipeline rank.                                     *)

PPStart(c) == c.pp_rank * (c.num_hidden_layers \div c.pp_size)

PPEnd(c) ==
    IF c.pp_rank = c.pp_size - 1
    THEN c.num_hidden_layers
    ELSE (c.pp_rank + 1) * (c.num_hidden_layers \div c.pp_size)

----------------------------------------------------------------------------
(* Constructors of the feed-forward block and of the two decoder layers.   *)

\* Plamo2MoE.__init__ (plamo2.py:399): the assertion on its num_experts
\* argument.
Plamo2MoE_ok(num_experts) == num_experts = None \/ num_experts <= 1

\* DenseMLP.__init__ (plamo2.py:417-427) always passes num_experts=1.
DenseMLP_ok(c) == Plamo2MoE_ok(1)

\* Plamo2MambaDecoderLayer.__init__ (plamo2.py:432-452).
MambaLayer_ok(c) == DenseMLP_ok(c)

\* Variant: only the query head count is tested.
AttentionHeads_ok_query_only(c) == c.num_attention_heads % c.tp_size = 0

\* Plamo2AttentionDecoderLayer.__init__ (plamo2.py:489-502): the head-count
\* assertions.
AttentionHeads_ok(c) ==
    /\ c.num_attention_heads % c.tp_size = 0
    /\ IF c.num_key_value_heads >= c.tp_size
       THEN c.num_key_value_heads % c.tp_size = 0
       ELSE c.tp_size % c.num_key_value_heads = 0

AttentionLayer_ok(c) == AttentionHeads_ok(c) /\ DenseMLP_ok(c)

\* self.num_heads (plamo2.py:492) and self.num_kv_heads (plamo2.py:502) of
\* an attention layer.
num_heads(c) == c.num_attention_heads \div c.tp_size

num_kv_heads(c) ==
    IF c.num_key_value_heads \div c.tp_size >= 1
    THEN c.num_key_value_heads \div c.tp_size ELSE 1

\* get_layer (plamo2.py:641-652): dispatch on config.layers_block_type.
LayerOk(c, kind) ==
    IF kind = "mamba" THEN MambaLayer_ok(c) ELSE AttentionLayer_ok(c)

----------------------------------------------------------------------------
(* Plamo2ForCausalLM.__init__ (plamo2.py:720-770) as a sequence of steps.  *)

InitBuild ==
    /\ phase = "build"
    /\ config \in { c \in Configs : ValidParallel(c) }
    /\ pc = "start"
    /\ layers_block_type = <<>>
    /\ block_type_set = FALSE
    /\ layers = <<>>
    /\ err = ""
    /\ StackIdle
    /\ LoadIdle
    /\ MixerIdle
    /\ CacheIdle

\* Variant: the constructor does not look at enable_prefix_caching.
CheckPrefixCaching_absent ==
    /\ phase = "build" /\ pc = "start"
    /\ pc' = "block_type"
    /\ UNCHANGED <<phase, config, layers_block_type, block_type_set, layers, err,
                   nonBuildVars>>

\* plamo2.py:723-724
CheckPrefixCaching ==
    /\ phase = "build" /\ pc = "start"
    /\ IF config.enable_prefix_caching
       THEN /\ pc' = "error"
            /\ err' = "prefix_caching"
       ELSE /\ pc' = "block_type"
            /\ err' = err
    /\ UNCHANGED <<phase, config, layers_block_type, block_type_set, layers, nonBuildVars>>

\* plamo2.py:735-738 (every call of is_mamba asserts mamba_step > 1)
ComputeBlockTypes ==
    /\ phase = "build" /\ pc = "block_type"
    /\ IF config.num_hidden_layers >= 1 /\ ~is_mamba_asserts(config)
       THEN /\ pc' = "error"
            /\ err' = "mamba_step"
            /\ UNCHANGED <<layers_block_type, block_type_set>>
       ELSE /\ layers_block_type' = BlockTypeList(config)
            /\ block_type_set' = TRUE
            /\ pc' = "make_layers"
            /\ err' = err
    /\ UNCHANGED <<phase, config, layers, nonBuildVars>>

\* plamo2.py:654-655: make_layers calls get_layer for each owned index and
\* puts a placeholder at every other index.
BuildLayer ==
    /\ phase = "build" /\ pc = "make_layers"
    /\ Len(layers) < config.num_hidden_layers
    /\ LET i == Len(layers)
           kind == layers_block_type[i + 1]
       IN IF i < PPStart(config) \/ i >= PPEnd(config)
          THEN /\ layers' = Append(layers, "missing")
               /\ UNCHANGED <<pc, err>>
          ELSE IF LayerOk(config, kind)
               THEN /\ layers' = Append(layers, kind)
                    /\ UNCHANGED <<pc, err>>
               ELSE /\ pc' = "error"
                    /\ err' = IF AttentionHeads_ok(config) \/ kind = "mamba"
                              THEN "moe" ELSE "heads"
                    /\ UNCHANGED layers
    /\ UNCHANGED <<phase, config, layers_block_type, block_type_set, nonBuildVars>>

\* plamo2.py:746-770: the output head, the cache slot and post_init.
FinishBuild ==
    /\ phase = "build" /\ pc = "make_layers"
    /\ Len(layers) = config.num_hidden_layers
    /\ pc' = "done"
    /\ UNCHANGED <<phase, config, layers_block_type, block_type_set, layers, err, nonBuildVars>>

NextBuild ==
    \/ CheckPrefixCaching
    \/ ComputeBlockTypes
    \/ BuildLayer
    \/ FinishBuild

SpecBuild == InitBuild /\ [][NextBuild]_vars

\* C11: with enable_prefix_caching set, construction stops at its first
\* statement with the prefix-caching assertion: the layer-kind list is never
\* assigned, no decoder layer is built, and the steps that create the
\* output head and the cache slot are never reached.
C11_PrefixCachingRejected ==
    config.enable_prefix_caching =>
        /\ pc \in {"start", "error"}
        /\ pc = "error" => err = "prefix_caching"
        /\ ~block_type_set
        /\ layers_block_type = <<>>
        /\ layers = <<>>

\* Construction has failed on prefix caching for a configuration that the
\* later assertions (period, head counts) would reject as well.
C11_Witness ==
    /\ config.enable_prefix_caching
    /\ pc = "error" /\ err = "prefix_caching"
    /\ ~is_mamba_asserts(config)
    /\ ~AttentionHeads_ok(config)

----------------------------------------------------------------------------
(* Properties of the construction.                                         *)

\* The rule of the layer-type scheduler as the specification states it.
AttentionRule(total_layers, period, i) ==
    \/ (i % period) = (period \div 2)
    \/ (total_layers <= (period \div 2) /\ i = total_layers - 1)

\* C1: for total_layers >= 1 and period > 1, is_mamba negated marks layer i
\* as Attention exactly when the rule holds, every other layer is Recurrent,
\* and the layers_block_type list assigned at construction has
\* total_layers entries that follow the rule.
C1_SchedulerRule ==
    LET n == config.num_hidden_layers
        p == config.mamba_step
    IN  /\ (p > 1) =>
              \A i \in 0..(n - 1) : (~is_mamba(config, i)) <=> AttentionRule(n, p, i)
        /\ block_type_set =>
              /\ Len(layers_block_type) = n
              /\ \A i \in 0..(n - 1) :
                    layers_block_type[i + 1] =
                        IF AttentionRule(n, p, i) THEN "attention" ELSE "mamba"

\* A shallow stack (total_layers = period div 2) whose list has been built:
\* two Recurrent layers and the forced final Attention layer.
C1_Witness ==
    /\ block_type_set
    /\ config.num_hidden_layers = 3 /\ config.mamba_step = 6
    /\ layers_block_type = <<"mamba", "mamba", "attention">>

\* The configuration with the same (total_layers, period) and every other
\* field at a fixed value.
Canonical(c) ==
    [ num_hidden_layers     |-> c.num_hidden_layers,
      mamba_step            |-> c.mamba_step,
      n_expert              |-> None,
      enable_prefix_caching |-> FALSE,
      num_attention_heads   |-> 1,
      num_key_value_heads   |-> 1,
      tp_size               |-> 1,
      pp_size               |-> 1,
      pp_rank               |-> 0 ]

\* C2: the scheduler's output depends only on (total_layers, period): the
\* kind of every index, and the list built at construction, are those of
\* the canonical configuration with the same two values, whatever the other
\* fields hold; and when total_layers <= period div 2 the last layer is
\* Attention.
C2_SchedulerPure ==
    LET n == config.num_hidden_layers
        p == config.mamba_step
    IN  /\ (p > 1) =>
              /\ \A i \in 0..(n - 1) :
                    is_mamba(config, i) = is_mamba(Canonical(config), i)
              /\ (n <= (p \div 2)) => ~is_mamba(config, n - 1)
        /\ block_type_set =>
              /\ layers_block_type = BlockTypeList(Canonical(config))
              /\ (n <= (p \div 2)) => layers_block_type[n] = "attention"

\* A built list for a shallow stack under a configuration that differs from
\* the canonical one in its other fields.
C2_Witness ==
    /\ block_type_set
    /\ config.num_hidden_layers = 2 /\ config.mamba_step = 5
    /\ config.num_attention_heads = 4 /\ config.tp_size = 2
    /\ config.n_expert = 2
    /\ layers_block_type[2] = "attention"

\* C9: with a recurrence period <= 1 (and total_layers >= 1) construction
\* never gets past the scheduler: the layer-kind list is never assigned, no
\* decoder layer is built, and construction ends in the error state.
C9_PeriodRejected ==
    (config.mamba_step <= 1 /\ config.num_hidden_layers >= 1) =>
        /\ ~block_type_set
        /\ layers_block_type = <<>>
        /\ layers = <<>>
        /\ pc \in {"start", "block_type", "error"}
        /\ (pc = "error" /\ ~config.enable_prefix_caching) => err = "mamba_step"

\* Construction aborted by the assertion of is_mamba on a period of 1.
C9_Witness ==
    /\ pc = "error" /\ err = "mamba_step"
    /\ config.mamba_step = 1
    /\ ~block_type_set /\ layers = <<>>

\* C10: no model whose configuration requests mixture-of-experts routing
\* (n_expert > 1) is ever successfully built.
C10_MoERejected ==
    (config.n_expert # None /\ config.n_expert > 1) => pc # "done"

\* The head counts for which the claim says construction fails.
BadHeadCounts(q, kv, w) ==
    \/ q % w # 0
    \/ (kv >= w /\ kv % w # 0)
    \/ (kv < w /\ w % kv # 0)

AttentionBuilt == \E k \in 1..Len(layers) : layers[k] = "attention"

----------------------------------------------------------------------------
(* Tensors.  An activation is a vector of Width integers modulo Modulus.   *)
(* The sub-modules whose code lies outside plamo2.py (RMSNorm, the linear  *)
(* projections, the attention kernel) are fixed deterministic functions of *)
(* their input and of the layer's weights, which differ from layer to      *)
(* layer; the residual arithmetic is the code's.                           *)

Channels == 1..Width

Vectors == [Channels -> 0..(Modulus - 1)]

RECURSIVE SumTo(_, _)
SumTo(x, k) == IF k = 0 THEN 0 ELSE x[k] + SumTo(x, k - 1)

SumVec(x) == SumTo(x, Len(x))

VecAdd(a, b) == [c \in Channels |-> (a[c] + b[c]) % Modulus]

\* torch.nn.functional.silu, on integers modulo Modulus.
Silu(z) == (z * (z + 1)) % Modulus

\* The weight of a normalisation layer: which = 1..4 for pre_mixer_norm,
\* post_mixer_norm, pre_mlp_norm, post_mlp_norm, 5 for final_layernorm.
NormWeight(l, which) == [c \in Channels |-> 1 + ((l + which + c) % (Modulus - 1))]

\* RMSNorm.forward(x): every channel is rescaled by one factor computed
\* from the mean square of x, times the learned weight.
RMSScale(x) == 1 + SumVec([c \in Channels |-> x[c] * x[c]])

Rescale(x, scale, w) == [c \in Channels |-> (x[c] * scale * w[c]) % Modulus]

RMSNorm(x, w) == Rescale(x, RMSScale(x), w)

\* RMSNorm.forward(x, residual): the residual is added first, and the sum is
\* returned as the new residual.
NormAndResidual(sum, w) == [ normed |-> RMSNorm(sum, w), residual |-> sum ]

RMSNormFused(x, residual, w) == NormAndResidual(VecAdd(x, residual), w)

\* Plamo2AttentionDecoderLayer.self_attention (plamo2.py:567-584).
attend(l, x, sum) == [c \in Channels |-> (x[c] * (l + 2) + sum) % Modulus]

self_attention(l, x) == attend(l, x, SumVec(x))

\* Plamo2MambaMixer.forward as seen by the decoder layer (plamo2.py:468): a
\* fresh sequence, whose output depends on the input and the weights only.
mamba(l, x) ==
    [c \in Channels |-> (x[c] * x[c] + l + 1) % Modulus]

\* Plamo2MoE.forward (plamo2.py:408-412): gate_up_proj, _swiglu, down_proj.
swiglu_down(h0, h1) == [c \in Channels |-> (Silu(h0[c]) * h1[c]) % Modulus]

mlp_sum(l, x, sum) ==
    swiglu_down([c \in Channels |-> x[c] + l], [c \in Channels |-> sum + c])

mlp(l, x) == mlp_sum(l, x, SumVec(x))

\* Python's None for an Optional[torch.Tensor].
NoTensor == <<>>

----------------------------------------------------------------------------
(* The forward of a decoder layer (plamo2.py:454-474 and 586-609).  Both   *)
(* variants share the skeleton and differ in the mixer.  The result keeps  *)
(* the intermediate values next to the returned pair.                      *)

\* pre_mixer_norm (plamo2.py:461-466 and 593-598): without a residual the
\* activation becomes the residual and the norm is applied unfused.
PreMixerNorm(l, hidden_states, residual) ==
    IF residual = NoTensor
    THEN [ normed   |-> RMSNorm(hidden_states, NormWeight(l, 1)),
           residual |-> hidden_states ]
    ELSE RMSNormFused(hidden_states, residual, NormWeight(l, 1))

\* The mixer and post_mixer_norm (plamo2.py:468-469 and 600-604).
PostMixer(kind, l, normed) ==
    RMSNorm(IF kind = "mamba" THEN mamba(l, normed) ELSE self_attention(l, normed),
            NormWeight(l, 2))

\* Variant: pre_mlp_norm is applied without the residual.
PreMlpNorm_nofuse(l, post, residual) ==
    [ normed   |-> RMSNorm(post, NormWeight(l, 3)),
      residual |-> residual ]

\* pre_mlp_norm (plamo2.py:471 and 606).
PreMlpNorm(l, post, residual) == RMSNormFused(post, residual, NormWeight(l, 3))

\* mlp and post_mlp_norm, and the returned pair (plamo2.py:472-474, 607-609).
LayerReturn(l, pre, post, fused) ==
    [ hidden_states |-> RMSNorm(mlp(l, fused.normed), NormWeight(l, 4)),
      residual      |-> fused.residual,
      pre_residual  |-> pre.residual,
      post_mixer    |-> post ]

LayerAfterMixer(l, pre, post) ==
    LayerReturn(l, pre, post, PreMlpNorm(l, post, pre.residual))

LayerAfterPreNorm(kind, l, pre) ==
    LayerAfterMixer(l, pre, PostMixer(kind, l, pre.normed))

DecoderLayerForward(kind, l, hidden_states, residual) ==
    LayerAfterPreNorm(kind, l, PreMixerNorm(l, hidden_states, residual))

----------------------------------------------------------------------------
(* Plamo2Model.forward (plamo2.py:667-707), run by three processes on the  *)
(* same model and input: "single" owns every layer; "first" and "last" are *)
(* the two ranks of a two-shard pipeline.  The single-process run is the   *)
(* reference and is completed before the pipeline starts.                  *)

Procs == {"single", "first", "last"}

ProcConfig(p) ==
    [ config EXCEPT !.pp_size = IF p = "single" THEN 1 ELSE 2,
                    !.pp_rank = IF p = "last" THEN 1 ELSE 0 ]

is_first_rank(p) == ProcConfig(p).pp_rank = 0

is_last_rank(p) == ProcConfig(p).pp_rank = ProcConfig(p).pp_size - 1

NoCall == [ i |-> None, kind |-> "", act_in |-> NoTensor, res_in |-> NoTensor,
            pre_residual |-> NoTensor, post_mixer |-> NoTensor,
            res_out |-> NoTensor, cache_idx |-> None ]

IdleProc ==
    [ pc |-> "idle", i |-> 0, hidden_states |-> NoTensor, residual |-> NoTensor,
      mamba_cache_index |-> 0, call |-> NoCall, calls |-> <<>>,
      returned |-> "", out |-> NoTensor ]

StackConfigs ==
    { c \in Configs :
        /\ c.num_hidden_layers >= 2
        /\ c.mamba_step >= 2
        /\ c = Canonical(c) }

StackConfigsUpTo(n) ==
    { [ c EXCEPT !.num_hidden_layers = k ] : c \in StackConfigs, k \in 2..n }

InitStack ==
    /\ MixerIdle
    /\ CacheIdle
    /\ phase = "stack"
    /\ config \in StackConfigsUpTo(MaxStackLayers)
    /\ pc = "done"
    /\ layers_block_type = BlockTypeList(config)
    /\ block_type_set = TRUE
    /\ layers = BlockTypeList(config)
    /\ err = ""
    /\ embeds \in Vectors
    /\ proc = [p \in Procs |-> IdleProc]
    /\ msg = <<>>
    /\ LoadIdle

\* plamo2.py:675-686: the entry of forward.  A rank that is not the first
\* needs the IntermediateTensors of the previous rank.
StartForward(p) ==
    /\ phase = "stack"
    /\ proc[p].pc = "idle"
    /\ (p # "single") => proc["single"].pc = "done"
    /\ IF is_first_rank(p)
       THEN /\ proc' = [proc EXCEPT ![p] =
                   [@ EXCEPT !.pc = "layers", !.i = PPStart(ProcConfig(p)),
                             !.hidden_states = embeds, !.residual = NoTensor,
                             !.mamba_cache_index = 0]]
            /\ msg' = msg
       ELSE /\ msg # <<>>
            /\ proc' = [proc EXCEPT ![p] =
                   [@ EXCEPT !.pc = "layers", !.i = PPStart(ProcConfig(p)),
                             !.hidden_states = msg["hidden_states"],
                             !.residual = msg["residual"],
                             !.mamba_cache_index = 0]]
            /\ msg' = <<>>
    /\ UNCHANGED <<phase, embeds, nonStackVars>>

\* Variant: the cursor advances on every layer, whatever its kind.
LayerStep_every(p) ==
    /\ phase = "stack"
    /\ proc[p].pc = "layers"
    /\ proc[p].i < PPEnd(ProcConfig(p))
    /\ \E st \in {proc[p]} :
       \E kind \in {layers[st.i + 1]} :
       \E idx \in {IF kind = "mamba" THEN st.mamba_cache_index ELSE None} :
       \E r \in {DecoderLayerForward(kind, st.i, st.hidden_states, st.residual)} :
       \E c \in {[ i |-> st.i, kind |-> kind, act_in |-> st.hidden_states,
                   res_in |-> st.residual, pre_residual |-> r.pre_residual,
                   post_mixer |-> r.post_mixer, res_out |-> r.residual,
                   cache_idx |-> idx ]} :
           proc' = [proc EXCEPT ![p] =
               [@ EXCEPT !.i = st.i + 1,
                         !.hidden_states = r.hidden_states,
                         !.residual = r.residual,
                         !.mamba_cache_index = @ + 1,
                         !.call = c,
                         !.calls = Append(@, <<st.i, idx>>)]]
    /\ UNCHANGED <<phase, embeds, msg, nonStackVars>>

\* plamo2.py:687-700: one iteration of the loop over the owned layers.
LayerStep(p) ==
    /\ phase = "stack"
    /\ proc[p].pc = "layers"
    /\ proc[p].i < PPEnd(ProcConfig(p))
    /\ \E st \in {proc[p]} :
       \E kind \in {layers[st.i + 1]} :
       \E idx \in {IF kind = "mamba" THEN st.mamba_cache_index ELSE None} :
       \E r \in {DecoderLayerForward(kind, st.i, st.hidden_states, st.residual)} :
       \E c \in {[ i |-> st.i, kind |-> kind, act_in |-> st.hidden_states,
                   res_in |-> st.residual, pre_residual |-> r.pre_residual,
                   post_mixer |-> r.post_mixer, res_out |-> r.residual,
                   cache_idx |-> idx ]} :
           proc' = [proc EXCEPT ![p] =
               [@ EXCEPT !.i = st.i + 1,
                         !.hidden_states = r.hidden_states,
                         !.residual = r.residual,
                         !.mamba_cache_index =
                             IF kind = "mamba" THEN @ + 1 ELSE @,
                         !.call = c,
                         !.calls = Append(@, <<st.i, idx>>)]]
    /\ UNCHANGED <<phase, embeds, msg, nonStackVars>>

\* The IntermediateTensors built at plamo2.py:702-705.
\* Variant: the activation is stored under both keys.
MakeIntermediateTensors_dup(hidden_states, residual) ==
    [ k \in {"hidden_states", "residual"} |-> hidden_states ]

MakeIntermediateTensors(hidden_states, residual) ==
    [ k \in {"hidden_states", "residual"} |->
        IF k = "hidden_states" THEN hidden_states ELSE residual ]

\* plamo2.py:701-707: the exit of forward.
FinishForward(p) ==
    /\ phase = "stack"
    /\ proc[p].pc = "layers"
    /\ proc[p].i = PPEnd(ProcConfig(p))
    /\ IF ~is_last_rank(p)
       THEN /\ msg' = MakeIntermediateTensors(proc[p].hidden_states,
                                              proc[p].residual)
            /\ proc' = [proc EXCEPT ![p] =
                   [@ EXCEPT !.pc = "done", !.returned = "intermediate"]]
       ELSE /\ msg' = msg
            /\ proc' = [proc EXCEPT ![p] =
                   [@ EXCEPT !.pc = "done", !.returned = "hidden_states",
                             !.out = RMSNormFused(proc[p].hidden_states,
                                                  proc[p].residual,
                                                  NormWeight(0, 5)).normed]]
    /\ UNCHANGED <<phase, embeds, nonStackVars>>

NextStack ==
    \/ \E p \in Procs : StartForward(p)
    \/ \E p \in Procs : LayerStep(p)
    \/ \E p \in Procs : FinishForward(p)

SpecStack == InitStack /\ [][NextStack]_vars

\* The number of Recurrent layers among the layers from..(to - 1).
RecurrentIn(from, to) ==
    Cardinality({ j \in from..(to - 1) : layers[j + 1] = "mamba" })

\* C12: in every forward call over the owned layers [start, end) the cursor
\* starts at 0 and counts the Recurrent layers passed so far: a Recurrent
\* layer gets the slice numbered by the Recurrent layers before it in the
\* shard, an Attention layer gets none, no slice is handed out twice, and
\* at the end the cursor is the number of Recurrent layers in [start, end).
C12_CacheCursor ==
    \A p \in Procs :
        LET start == PPStart(ProcConfig(p))
            calls == proc[p].calls
        IN  /\ proc[p].pc = "idle" => proc[p].mamba_cache_index = 0 /\ calls = <<>>
            /\ proc[p].pc \in {"layers", "done"} =>
                  /\ Len(calls) = proc[p].i - start
                  /\ proc[p].mamba_cache_index = RecurrentIn(start, proc[p].i)
                  /\ \A k \in 1..Len(calls) :
                        /\ calls[k][1] = start + k - 1
                        /\ calls[k][2] =
                              IF layers[calls[k][1] + 1] = "mamba"
                              THEN RecurrentIn(start, calls[k][1]) ELSE None
                  /\ \A k, m \in 1..Len(calls) :
                        (k # m /\ calls[k][2] # None) => calls[k][2] # calls[m][2]
            /\ proc[p].pc = "done" =>
                  /\ proc[p].i = PPEnd(ProcConfig(p))
                  /\ proc[p].mamba_cache_index
                        = RecurrentIn(start, PPEnd(ProcConfig(p)))

\* The second shard of an eight-layer stack has run its layers 4..7: the
\* Recurrent layers 4 and 6 got the slices 0 and 1, the Attention layers
\* none, and the cursor ended at 2.
C12_Witness ==
    /\ config.num_hidden_layers = 8 /\ config.mamba_step = 2
    /\ proc["last"].pc = "done"
    /\ proc["last"].calls = << <<4, 0>>, <<5, None>>, <<6, 1>>, <<7, None>> >>
    /\ proc["last"].mamba_cache_index = 2

----------------------------------------------------------------------------
(* Properties of the decoder layers and of the decoder stack.              *)

ZeroVector == [c \in Channels |-> 0]

Called(p) == proc[p].call.i # None

\* The residual a layer would return if it were the sum of its two inputs.
InputSum(c) ==
    IF c.res_in = NoTensor THEN c.act_in ELSE VecAdd(c.act_in, c.res_in)

\* C3, as stated: the residual returned by a decoder layer's forward is
\* activation_in + residual_in when residual_in is present, and
\* activation_in when it is absent.
C3_ResidualIsInputSum ==
    \A p \in Procs : Called(p) => proc[p].call.res_out = InputSum(proc[p].call)

\* C3, amended: the residual produced by the pre-mixer norm is
\* activation_in + residual_in (activation_in when residual_in is absent),
\* and the residual returned by forward is that sum plus the output of
\* post_mixer_norm applied to the mixer's output, for both layer variants.
C3_ResidualFusion ==
    \A p \in Procs : Called(p) =>
        LET c == proc[p].call
        IN  /\ c.pre_residual = InputSum(c)
            /\ c.post_mixer =
                 PostMixer(c.kind, c.i, RMSNorm(InputSum(c), NormWeight(c.i, 1)))
            /\ c.res_out = VecAdd(InputSum(c), c.post_mixer)
            /\ c.res_out = proc[p].residual

\* A Recurrent layer called without a residual and an Attention layer
\* called with one, each with a non-zero mixer contribution.
C3_Witness ==
    \E p, q \in Procs :
        /\ Called(p) /\ proc[p].call.kind = "mamba"
        /\ proc[p].call.res_in = NoTensor
        /\ proc[p].call.post_mixer # ZeroVector
        /\ Called(q) /\ proc[q].call.kind = "attention"
        /\ proc[q].call.res_in # NoTensor
        /\ proc[q].call.post_mixer # ZeroVector

\* C4: the first shard of a two-shard pipeline returns a message holding
\* the activation and the residual as they are after its last layer (no
\* final norm applied), and the last shard, started from that message,
\* returns the activation that the single process returns for all layers
\* followed by the final norm.
C4_PipelineBoundary ==
    /\ proc["first"].pc = "done" =>
          /\ proc["first"].returned = "intermediate"
          /\ proc["first"].out = NoTensor
          /\ proc["first"].i = PPEnd(ProcConfig("first"))
          /\ msg # <<>> =>
                /\ DOMAIN msg = {"hidden_states", "residual"}
                /\ msg["hidden_states"] = proc["first"].hidden_states
                /\ msg["residual"] = proc["first"].residual
                /\ msg["residual"] # NoTensor
    /\ proc["last"].pc = "done" =>
          /\ proc["last"].returned = "hidden_states"
          /\ proc["single"].pc = "done"
          /\ proc["last"].out = proc["single"].out
          /\ proc["last"].out # NoTensor

\* The 8-layer stack split at layer 4, both runs completed.
C4_Witness ==
    /\ config.num_hidden_layers = 8
    /\ PPEnd(ProcConfig("first")) = 4 /\ PPStart(ProcConfig("last")) = 4
    /\ Len(proc["first"].calls) = 4 /\ Len(proc["last"].calls) = 4
    /\ Len(proc["single"].calls) = 8
    /\ proc["last"].pc = "done"
    /\ proc["last"].out = proc["single"].out
    /\ proc["last"].out # ZeroVector

----------------------------------------------------------------------------
(* Names.  A tensor or Parameter name is the sequence of its dot-separated *)
(* segments: "model.layers.0.mamba.A" is <<"model","layers","0","mamba",   *)
(* "A">>.  The substring tests and replacements of load_weights are done   *)
(* segment-wise; a pattern that starts with "." can only match from the    *)
(* second segment on.  On the segments that occur in the model this is     *)
(* substring matching: the only segment that is a proper prefix of another *)
(* is "A" (of "A_log"), which StartsWith knows.                            *)

StartsWith(segment, prefix) ==
    segment = prefix \/ (prefix = "A" /\ segment = "A_log")

\* old in name, for a pattern old that starts with "." (dotted) or not.
Contains(name, old, dotted) ==
    \E k \in (IF dotted THEN 2 ELSE 1)..(Len(name) - Len(old) + 1) :
        /\ \A j \in 1..(Len(old) - 1) : name[k + j - 1] = old[j]
        /\ StartsWith(name[k + Len(old) - 1], old[Len(old)])

\* name.replace(old, new): every occurrence, left to right.
RECURSIVE ReplaceFrom(_, _, _, _)
ReplaceFrom(name, k, old, new) ==
    IF k + Len(old) - 1 > Len(name)
    THEN name
    ELSE IF SubSeq(name, k, k + Len(old) - 1) = old
         THEN ReplaceFrom(SubSeq(name, 1, k - 1) \o new
                              \o SubSeq(name, k + Len(old), Len(name)),
                          k + Len(new), old, new)
         ELSE ReplaceFrom(name, k + 1, old, new)

Replace(name, r) == ReplaceFrom(name, IF r.dotted THEN 2 ELSE 1, r.old, r.new)

\* The replacements dict of load_weights (plamo2.py:846-869), in its order.
replacements ==
    << [dotted |-> TRUE,  old |-> <<"layers", "layers">>, new |-> <<"layers">>],
       [dotted |-> TRUE,  old |-> <<"mixer">>, new |-> <<>>],
       [dotted |-> FALSE, old |-> <<"model", "norm", "weight">>,
                          new |-> <<"model", "final_layernorm", "weight">>],
       [dotted |-> TRUE,  old |-> <<"q_weight">>, new |-> <<"q_norm", "weight">>],
       [dotted |-> TRUE,  old |-> <<"k_weight">>, new |-> <<"k_norm", "weight">>],
       [dotted |-> TRUE,  old |-> <<"A_log">>, new |-> <<"mamba", "A">>],
       [dotted |-> TRUE,  old |-> <<"B_norm_weight">>,
                          new |-> <<"mamba", "b_layernorm", "weight">>],
       [dotted |-> TRUE,  old |-> <<"C_norm_weight">>,
                          new |-> <<"mamba", "c_layernorm", "weight">>],
       [dotted |-> TRUE,  old |-> <<"dt_norm_weight">>,
                          new |-> <<"mamba", "dt_layernorm", "weight">>],
       [dotted |-> TRUE,  old |-> <<"bcdt_proj", "weight">>,
                          new |-> <<"mamba", "x_proj", "weight">>],
       [dotted |-> TRUE,  old |-> <<"conv1d", "weight">>,
                          new |-> <<"mamba", "conv1d", "weight">>],
       [dotted |-> TRUE,  old |-> <<"in_proj", "weight">>,
                          new |-> <<"mamba", "in_proj", "weight">>],
       [dotted |-> TRUE,  old |-> <<"out_proj", "weight">>,
                          new |-> <<"mamba", "out_proj", "weight">>],
       [dotted |-> TRUE,  old |-> <<"D">>, new |-> <<"mamba", "D">>],
       [dotted |-> TRUE,  old |-> <<"dt_bias">>,
                          new |-> <<"mamba", "dt_proj", "bias">>],
       [dotted |-> TRUE,  old |-> <<"dt_proj", "weight">>,
                          new |-> <<"mamba", "dt_proj", "weight">>] >>

\* The loop of plamo2.py:871-873.
RECURSIVE ApplyReplacements(_, _)
ApplyReplacements(name, k) ==
    IF k > Len(replacements)
    THEN name
    ELSE ApplyReplacements(
             IF Contains(name, replacements[k].old, replacements[k].dotted)
             THEN Replace(name, replacements[k]) ELSE name,
             k + 1)

Translate(name) == ApplyReplacements(name, 1)

----------------------------------------------------------------------------
(* Tensors of the checkpoint and of the runtime Parameters: a shape, the   *)
(* elements in row-major order, and the additive constants applied so far. *)
(* off = <<a, b, c>> stands for + a + b/5 + c/(5^1.5) on every element.    *)

RECURSIVE Numel(_)
Numel(shape) == IF shape = <<>> THEN 1 ELSE Head(shape) * Numel(Tail(shape))

Tensor(shape, data) == [ shape |-> shape, data |-> data, off |-> <<0, 0, 0>> ]

WithData(t, shape, data) == [ t EXCEPT !.shape = shape, !.data = data ]

\* t[:, None, None].expand(-1, n1, n2) and t[:, None].expand(-1, n1) (n2 = 1):
\* every element of the 1-D tensor t is repeated n1 * n2 times in a row.
Expand(t, n1, n2) ==
    WithData(t, <<t.shape[1], n1, n2>>,
             [f \in 1..(t.shape[1] * n1 * n2) |-> t.data[((f - 1) \div (n1 * n2)) + 1]])

\* t.reshape(-1, cols); cols = 0 stands for t.reshape(-1).
Reshape(t, cols) ==
    IF cols = 0
    THEN WithData(t, <<Numel(t.shape)>>, t.data)
    ELSE WithData(t, <<Numel(t.shape) \div cols, cols>>, t.data)

\* t.reshape(a, b, -1)
Reshape3(t, a, b) == WithData(t, <<a, b, Numel(t.shape) \div (a * b)>>, t.data)

\* t.transpose(0, 1) of a matrix, read in row-major order.
Transpose(t) ==
    WithData(t, <<t.shape[2], t.shape[1]>>,
             [f \in 1..Numel(t.shape) |->
                 t.data[((f - 1) % t.shape[1]) * t.shape[2]
                        + ((f - 1) \div t.shape[1]) + 1]])

\* t.chunk(2, dim=-1)[which] of a 3-D tensor whose last size is even.
Chunk(t, which) ==
    LET k == t.shape[3] \div 2
    IN  WithData(t, <<t.shape[1], t.shape[2], k>>,
                 [f \in 1..(t.shape[1] * t.shape[2] * k) |->
                     t.data[((f - 1) \div k) * (2 * k) + which * k
                            + ((f - 1) % k) + 1]])

\* torch.cat([g, h], dim=-1) of two matrices with the same number of rows.
Cat(g, h) ==
    LET n == g.shape[2] + h.shape[2]
    IN  WithData(g, <<g.shape[1], n>>,
                 [f \in 1..(g.shape[1] * n) |->
                     IF (f - 1) % n < g.shape[2]
                     THEN g.data[((f - 1) \div n) * g.shape[2] + ((f - 1) % n) + 1]
                     ELSE h.data[((f - 1) \div n) * h.shape[2]
                                 + ((f - 1) % n) - g.shape[2] + 1]])

\* loaded_weight += constant (plamo2.py:898-907).
AddOffset(t, which) == [ t EXCEPT !.off[which] = @ + 1 ]

----------------------------------------------------------------------------
(* The shape fixes of load_weights (plamo2.py:875-896).                    *)

\* Variant: the per-head vector is tiled instead of repeated per head.
BroadcastA_tiled(t) ==
    WithData(t, <<t.shape[1] * HeadWidth, DState>>,
             [f \in 1..(t.shape[1] * HeadWidth * DState) |->
                 t.data[(((f - 1) \div DState) % t.shape[1]) + 1]])

\* plamo2.py:877-881
BroadcastA(t) == Reshape(Expand(t, HeadWidth, DState), DState)

\* plamo2.py:883-885
BroadcastD(t) == Reshape(Expand(t, HeadWidth, 1), 0)

\* plamo2.py:888-896
RegroupHalves(t3) == Transpose(Cat(Reshape(Chunk(t3, 0), NumHeads * HeadWidth),
                                   Reshape(Chunk(t3, 1), NumHeads * HeadWidth)))

\* Variant: the rows keep the order of the checkpoint.
RegroupInProj_as_stored(t) == t

RegroupInProj(t) == RegroupHalves(Reshape3(Transpose(t), Width, NumHeads))

ShapeFix(name, t) ==
    IF Contains(name, <<"A">>, TRUE) THEN BroadcastA(t)
    ELSE IF Contains(name, <<"D">>, TRUE) THEN BroadcastD(t)
    ELSE IF Contains(name, <<"mamba", "in_proj", "weight">>, TRUE)
         THEN RegroupInProj(t)
    ELSE t

\* Variant: the post-feed-forward norm gets the constant of the post-mixer
\* norm.
NormOffset_same_post(name, t) ==
    IF Contains(name, <<"pre_mixer_norm">>, TRUE) THEN AddOffset(t, 1)
    ELSE IF Contains(name, <<"post_mixer_norm">>, TRUE) THEN AddOffset(t, 2)
    ELSE IF Contains(name, <<"pre_mlp_norm">>, TRUE) THEN AddOffset(t, 1)
    ELSE IF Contains(name, <<"post_mlp_norm">>, TRUE) THEN AddOffset(t, 2)
    ELSE IF Contains(name, <<"model", "final_layernorm", "weight">>, FALSE)
         THEN AddOffset(t, 1)
    ELSE t

\* plamo2.py:897-907
NormOffset(name, t) ==
    IF Contains(name, <<"pre_mixer_norm">>, TRUE) THEN AddOffset(t, 1)
    ELSE IF Contains(name, <<"post_mixer_norm">>, TRUE) THEN AddOffset(t, 2)
    ELSE IF Contains(name, <<"pre_mlp_norm">>, TRUE) THEN AddOffset(t, 1)
    ELSE IF Contains(name, <<"post_mlp_norm">>, TRUE) THEN AddOffset(t, 3)
    ELSE IF Contains(name, <<"model", "final_layernorm", "weight">>, FALSE)
         THEN AddOffset(t, 1)
    ELSE t

----------------------------------------------------------------------------
(* The runtime Parameters (named_parameters) and the checkpoint's names.   *)

LayerTok == <<"0", "1", "2", "3", "4", "5", "6", "7", "8", "9">>

\* Below a Plamo2MambaDecoderLayer (plamo2.py:204-281, 441-452).
MambaParams ==
    << <<"mamba", "A">>, <<"mamba", "D">>,
       <<"mamba", "conv1d", "weight">>, <<"mamba", "in_proj", "weight">>,
       <<"mamba", "x_proj", "weight">>, <<"mamba", "dt_proj", "weight">>,
       <<"mamba", "dt_proj", "bias">>, <<"mamba", "out_proj", "weight">>,
       <<"mamba", "dt_layernorm", "weight">>,
       <<"mamba", "b_layernorm", "weight">>,
       <<"mamba", "c_layernorm", "weight">> >>

\* Below a Plamo2AttentionDecoderLayer (plamo2.py:508-545).
AttentionParams ==
    << <<"qkv_proj", "weight">>, <<"o_proj", "weight">>,
       <<"q_norm", "weight">>, <<"k_norm", "weight">> >>

\* Below either layer (plamo2.py:402-406, 445-452, 558-565).
CommonParams ==
    << <<"mlp", "gate_up_proj", "weight">>, <<"mlp", "down_proj", "weight">>,
       <<"pre_mixer_norm", "weight">>, <<"post_mixer_norm", "weight">>,
       <<"pre_mlp_norm", "weight">>, <<"post_mlp_norm", "weight">> >>

Range(seq) == { seq[k] : k \in 1..Len(seq) }

LayerParams(kind) ==
    Range(IF kind = "mamba" THEN MambaParams ELSE AttentionParams)
        \cup Range(CommonParams)

\* dict(self.named_parameters()) on a shard (plamo2.py:834): the layers of
\* other shards are placeholders without Parameters, and a tied lm_head
\* shares the Parameter registered as model.embed_tokens.weight.
params_dict(c, tie) ==
    { <<"model", "embed_tokens", "weight">>,
      <<"model", "final_layernorm", "weight">> }
    \cup (IF tie THEN {} ELSE { <<"lm_head", "weight">> })
    \cup UNION { { <<"model", "layers", LayerTok[i + 1]>> \o suffix :
                     suffix \in LayerParams(BlockTypeList(c)[i + 1]) } :
                 i \in PPStart(c)..(PPEnd(c) - 1) }

\* is_pp_missing_parameter: the name lies below a layer of another shard.
is_pp_missing_parameter(name, c) ==
    /\ Len(name) >= 4
    /\ name[1] = "model" /\ name[2] = "layers"
    /\ \E i \in 0..(c.num_hidden_layers - 1) :
          /\ name[3] = LayerTok[i + 1]
          /\ (i < PPStart(c) \/ i >= PPEnd(c))

\* The declared shape of a runtime Parameter (one tensor-parallel worker).
ParamShape(name) ==
    IF name[Len(name)] = "A" THEN <<NumHeads * HeadWidth, DState>>
    ELSE IF name[Len(name)] = "D" THEN <<NumHeads * HeadWidth>>
    ELSE IF Contains(name, <<"mamba", "in_proj", "weight">>, TRUE)
         THEN <<2 * NumHeads * HeadWidth, Width>>
    ELSE <<Width>>

\* The names under which the reference checkpoint stores a layer.
MambaCkpt ==
    << <<"mixer", "A_log">>, <<"mixer", "D">>,
       <<"mixer", "conv1d", "weight">>, <<"mixer", "in_proj", "weight">>,
       <<"mixer", "bcdt_proj", "weight">>, <<"mixer", "dt_proj", "weight">>,
       <<"mixer", "dt_bias">>, <<"mixer", "out_proj", "weight">>,
       <<"mixer", "dt_norm_weight">>, <<"mixer", "B_norm_weight">>,
       <<"mixer", "C_norm_weight">> >>

AttentionCkpt ==
    << <<"mixer", "qkv_proj", "weight">>, <<"mixer", "o_proj", "weight">>,
       <<"mixer", "q_weight">>, <<"mixer", "k_weight">> >>

LayerCkpt(i, kind) ==
    LET suffixes == (IF kind = "mamba" THEN MambaCkpt ELSE AttentionCkpt)
                        \o CommonParams
    IN  [ k \in 1..Len(suffixes) |->
            <<"model", "layers", "layers", LayerTok[i + 1]>> \o suffixes[k] ]

RECURSIVE LayersCkpt(_, _)
LayersCkpt(c, i) ==
    IF i = c.num_hidden_layers THEN <<>>
    ELSE LayerCkpt(i, BlockTypeList(c)[i + 1]) \o LayersCkpt(c, i + 1)

\* A complete checkpoint of the model, in file order.
CheckpointNames(c) ==
    << <<"model", "embed_tokens", "weight">> >> \o LayersCkpt(c, 0)
        \o << <<"model", "norm", "weight">>, <<"lm_head", "weight">> >>

\* Names that no Parameter of the model answers to.
UnknownNames ==
    { <<"model", "layers", "layers", "0", "mixer", "unknown", "weight">>,
      <<"model", "layers", "layers", "1", "unknown", "weight">>,
      <<"model", "unknown", "weight">> }

\* The streams load_weights is given: the complete checkpoint, and the
\* checkpoint with one tensor left out, repeated, or with a tensor of an
\* unknown name put in front, in the middle or at the end.
Streams(c) ==
    LET full == CheckpointNames(c)
        n == Len(full)
    IN  {full}
        \cup { SubSeq(full, 1, k - 1) \o SubSeq(full, k + 1, n) : k \in 1..n }
        \cup { SubSeq(full, 1, k) \o <<full[k]>> \o SubSeq(full, k + 1, n) :
                 k \in 1..n }
        \cup { SubSeq(full, 1, k) \o <<u>> \o SubSeq(full, k + 1, n) :
                 k \in {0, n \div 2, n}, u \in UnknownNames }

\* The values a checkpoint holds per head: A_log as stored, D shifted by one.
PerHeadChoices ==
    { [h \in 1..NumHeads |-> (h * k) % Modulus] : k \in 1..2 }

\* The tensor stored under a checkpoint name.
CheckpointTensor(name, ph) ==
    IF name[Len(name)] = "A_log" THEN Tensor(<<NumHeads>>, ph)
    ELSE IF name[Len(name)] = "D"
         THEN Tensor(<<NumHeads>>, [h \in 1..NumHeads |-> ph[h] + 1])
    ELSE IF Contains(name, <<"mixer", "in_proj", "weight">>, TRUE)
         THEN Tensor(<<2 * NumHeads * HeadWidth, Width>>,
                     [f \in 1..(2 * NumHeads * HeadWidth * Width) |-> f])
    ELSE Tensor(<<Width>>, [f \in 1..Width |-> f])

----------------------------------------------------------------------------
(* load_weights (plamo2.py:833-914): one iteration of its loop per step.   *)

LoadConfigs ==
    { [ c EXCEPT !.pp_size = s, !.pp_rank = r ] :
        c \in { d \in StackConfigsUpTo(LoadLayers) :
                  d.num_hidden_layers = LoadLayers /\ d.mamba_step = 2 },
        s \in 1..MaxPP, r \in 0..(MaxPP - 1) }

InitLoad ==
    /\ MixerIdle
    /\ CacheIdle
    /\ phase = "load"
    /\ config \in { c \in LoadConfigs : ValidParallel(c) }
    /\ pc = "done"
    /\ layers_block_type = BlockTypeList(config)
    /\ block_type_set = TRUE
    /\ layers = [ k \in 1..config.num_hidden_layers |->
                    IF k - 1 < PPStart(config) \/ k - 1 >= PPEnd(config)
                    THEN "missing" ELSE BlockTypeList(config)[k] ]
    /\ err = ""
    /\ StackIdle
    /\ tie_word_embeddings \in BOOLEAN
    /\ per_head \in PerHeadChoices
    /\ weights \in Streams(config)
    /\ params = [ name \in params_dict(config, tie_word_embeddings) |-> NoTensor ]
    /\ hydrated = [ name \in params_dict(config, tie_word_embeddings) |-> 0 ]
    /\ load_pc = "loading"
    /\ load_last = [ name |-> <<>>, final |-> <<>>, outcome |-> "",
                     changed |-> FALSE ]

\* weight_loader(param, loaded_weight) (plamo2.py:912-914): the loaders
\* copy a tensor of the Parameter's shape; the loader of A also maps it
\* through -exp.
weight_loader(name, t) ==
    [ shape |-> t.shape, data |-> t.data, off |-> t.off,
      neg_exp |-> (name[Len(name)] = "A") ]

\* The tensor that reaches the lookup of plamo2.py:911.
Prepared(final, t) == NormOffset(final, ShapeFix(final, t))

\* Variant: a name without a Parameter is skipped.
Outcome_skip_unknown(name, final, t) ==
    IF name = <<"lm_head", "weight">> /\ tie_word_embeddings
    THEN "dropped_tied"
    ELSE IF is_pp_missing_parameter(final, config) THEN "skipped_pp"
    ELSE IF final \notin DOMAIN params THEN "skipped_unknown"
    ELSE IF t.shape # ParamShape(final) THEN "error_shape"
    ELSE "hydrated"

\* Variant: the Parameter is looked up before the shard test.
Outcome_lookup_first(name, final, t) ==
    IF name = <<"lm_head", "weight">> /\ tie_word_embeddings
    THEN "dropped_tied"
    ELSE IF final \notin DOMAIN params THEN "error_key"
    ELSE IF is_pp_missing_parameter(final, config) THEN "skipped_pp"
    ELSE IF t.shape # ParamShape(final) THEN "error_shape"
    ELSE "hydrated"

\* What one iteration does with the tensor (name, t): its outcome.
Outcome(name, final, t) ==
    IF name = <<"lm_head", "weight">> /\ tie_word_embeddings
    THEN "dropped_tied"
    ELSE IF is_pp_missing_parameter(final, config) THEN "skipped_pp"
    ELSE IF final \notin DOMAIN params THEN "error_key"
    ELSE IF t.shape # ParamShape(final) THEN "error_shape"
    ELSE "hydrated"

LoadStep ==
    /\ phase = "load" /\ load_pc = "loading"
    /\ weights # <<>>
    /\ \E name \in {Head(weights)} :
       \E final \in {Translate(name)} :
       \E t \in {Prepared(final, CheckpointTensor(name, per_head))} :
       \E outcome \in {Outcome(name, final, t)} :
          /\ weights' = Tail(weights)
          /\ load_pc' = IF outcome \in {"error_key", "error_shape"}
                        THEN "error" ELSE "loading"
          /\ IF outcome = "hydrated"
             THEN /\ params' = [params EXCEPT ![final] = weight_loader(final, t)]
                  /\ hydrated' = [hydrated EXCEPT ![final] = @ + 1]
             ELSE UNCHANGED <<params, hydrated>>
          /\ load_last' = [ name |-> name, final |-> final, outcome |-> outcome,
                            changed |-> (params' # params \/ hydrated' # hydrated) ]
    /\ UNCHANGED <<phase, tie_word_embeddings, per_head, nonLoadVars>>

\* The stream is exhausted: load_weights returns.
FinishLoad ==
    /\ phase = "load" /\ load_pc = "loading"
    /\ weights = <<>>
    /\ load_pc' = "returned"
    /\ UNCHANGED <<phase, tie_word_embeddings, per_head, weights, params,
                   hydrated, load_last, nonLoadVars>>

NextLoad == LoadStep \/ FinishLoad

SpecLoad == InitLoad /\ [][NextLoad]_vars

----------------------------------------------------------------------------
(* Properties of load_weights.                                             *)

\* C5: load_weights returns successfully only if every runtime Parameter
\* owned by the shard has been hydrated exactly once (a stream that leaves
\* one unhydrated ends in an error instead).
C5_ReturnsOnlyIfAllHydratedOnce ==
    load_pc = "returned" => \A name \in DOMAIN hydrated : hydrated[name] = 1

TiedHead(name) == name = <<"lm_head", "weight">> /\ tie_word_embeddings

\* C6, as stated: a tensor whose translated name matches no runtime
\* Parameter is a fatal error, the one exception being lm_head.weight under
\* tied embeddings, which is dropped without hydrating anything.
C6_UnmatchedIsFatal ==
    load_last.outcome # "" =>
        /\ TiedHead(load_last.name) =>
              /\ load_last.outcome = "dropped_tied"
              /\ ~load_last.changed
              /\ load_pc # "error"
        /\ (load_last.final \notin DOMAIN params /\ ~TiedHead(load_last.name)) =>
              /\ load_last.outcome = "error_key"
              /\ load_pc = "error"

\* C6, amended: there are two exceptions.  lm_head.weight under tied
\* embeddings, and a tensor whose translated name lies below a layer that
\* another pipeline shard owns, are dropped without hydrating anything and
\* without error; every other tensor whose translated name matches no
\* runtime Parameter stops load_weights with an error, nothing hydrated.
C6_UnmatchedIsFatalUnlessSkipped ==
    load_last.outcome # "" =>
        /\ TiedHead(load_last.name) =>
              /\ load_last.outcome = "dropped_tied"
              /\ ~load_last.changed
              /\ load_pc # "error"
        /\ (is_pp_missing_parameter(load_last.final, config)
              /\ ~TiedHead(load_last.name)) =>
              /\ load_last.outcome = "skipped_pp"
              /\ load_last.final \notin DOMAIN params
              /\ ~load_last.changed
              /\ load_pc # "error"
        /\ (load_last.final \notin DOMAIN params
              /\ ~TiedHead(load_last.name)
              /\ ~is_pp_missing_parameter(load_last.final, config)) =>
              /\ load_last.outcome = "error_key"
              /\ ~load_last.changed
              /\ load_pc = "error"

\* An unknown name below an owned layer has stopped load_weights.
C6_Witness ==
    /\ load_pc = "error"
    /\ load_last.outcome = "error_key"
    /\ load_last.name = <<"model", "layers", "layers", "0", "mixer", "unknown", "weight">>
    /\ load_last.final = <<"model", "layers", "0", "unknown", "weight">>
    /\ ~is_pp_missing_parameter(load_last.final, config)

\* C13: a tensor whose translated name lies below a layer of another
\* pipeline shard is skipped: no Parameter changes, load_weights does not
\* stop with an error, and the loop goes on with the rest of the stream (it
\* returns only when the stream is exhausted).
C13_OtherShardSkipped ==
    (load_last.outcome # "" /\ is_pp_missing_parameter(load_last.final, config)) =>
        /\ load_last.outcome = "skipped_pp"
        /\ ~load_last.changed
        /\ load_pc \in {"loading", "returned"}
        /\ load_pc = "returned" => weights = <<>>

\* The first shard of a two-stage pipeline has skipped the tensors of
\* layer 1 and then hydrated the final norm, which follows them.
C13_Witness ==
    /\ config.pp_size = 2 /\ config.pp_rank = 0
    /\ load_last.name = <<"model", "norm", "weight">>
    /\ load_last.outcome = "hydrated"
    /\ hydrated[<<"model", "final_layernorm", "weight">>] = 1
    /\ \A name \in DOMAIN hydrated :
          is_pp_missing_parameter(name, config) => hydrated[name] = 0
    /\ hydrated[<<"model", "layers", "0", "mamba", "A">>] = 1

IsHydrated(name) == name \in DOMAIN params /\ params[name] # NoTensor

ParamsNamed(last) == { name \in DOMAIN params : name[Len(name)] = last }

\* C7: the decay Parameter hydrated from a per-head tensor of shape (heads,)
\* has shape (heads * head_width, state_dim) and its entry (r, s) is the
\* value of head r div head_width; the skip-scale Parameter has length
\* heads * head_width and its entry c is the value of head c div head_width.
C7_PerHeadBroadcast ==
    /\ \A name \in ParamsNamed("A") : IsHydrated(name) =>
          /\ params[name].shape = <<NumHeads * HeadWidth, DState>>
          /\ Len(params[name].data) = NumHeads * HeadWidth * DState
          /\ \A r \in 0..(NumHeads * HeadWidth - 1), s0 \in 0..(DState - 1) :
                params[name].data[r * DState + s0 + 1]
                    = per_head[(r \div HeadWidth) + 1]
    /\ \A name \in ParamsNamed("D") : IsHydrated(name) =>
          /\ params[name].shape = <<NumHeads * HeadWidth>>
          /\ Len(params[name].data) = NumHeads * HeadWidth
          /\ \A c \in 0..(NumHeads * HeadWidth - 1) :
                params[name].data[c + 1] = per_head[(c \div HeadWidth) + 1] + 1

\* Both per-head tensors of the Recurrent layer 0 have been hydrated from
\* heads that hold different values.
C7_Witness ==
    /\ IsHydrated(<<"model", "layers", "0", "mamba", "A">>)
    /\ IsHydrated(<<"model", "layers", "0", "mamba", "D">>)
    /\ per_head[1] # per_head[2]
    /\ load_pc = "returned"

\* The offset the claim assigns to a runtime Parameter, as the triple of
\* the multiples of 1, 1/5 and 1/(5^1.5).
ExpectedOffset(name) ==
    IF name = <<"model", "final_layernorm", "weight">> THEN <<1, 0, 0>>
    ELSE IF Len(name) < 2 THEN <<0, 0, 0>>
    ELSE IF name[Len(name) - 1] = "pre_mixer_norm" THEN <<1, 0, 0>>
    ELSE IF name[Len(name) - 1] = "post_mixer_norm" THEN <<0, 1, 0>>
    ELSE IF name[Len(name) - 1] = "pre_mlp_norm" THEN <<1, 0, 0>>
    ELSE IF name[Len(name) - 1] = "post_mlp_norm" THEN <<0, 0, 1>>
    ELSE <<0, 0, 0>>

\* C14: every hydrated Parameter carries at most one additive constant, the
\* one its name selects: +1 for the pre-mixer, pre-feed-forward and final
\* norms, +1/5 for the post-mixer norm, +1/(5^1.5) for the post-feed-forward
\* norm, and nothing for every other tensor (the B, C and time-step norms
\* and the query and key norms among them).
C14_NormOffsets ==
    \A name \in DOMAIN params :
        IsHydrated(name) =>
            /\ params[name].off = ExpectedOffset(name)
            /\ params[name].off[1] + params[name].off[2] + params[name].off[3] <= 1

\* A complete checkpoint has been loaded on a single shard: the four norms
\* of layer 1 carry their constants, the other norms carry none.
C14_Witness ==
    /\ load_pc = "returned" /\ config.pp_size = 1
    /\ \A name \in DOMAIN hydrated : hydrated[name] = 1
    /\ params[<<"model", "layers", "1", "pre_mixer_norm", "weight">>].off = <<1, 0, 0>>
    /\ params[<<"model", "layers", "1", "post_mixer_norm", "weight">>].off = <<0, 1, 0>>
    /\ params[<<"model", "layers", "1", "pre_mlp_norm", "weight">>].off = <<1, 0, 0>>
    /\ params[<<"model", "layers", "1", "post_mlp_norm", "weight">>].off = <<0, 0, 1>>
    /\ params[<<"model", "final_layernorm", "weight">>].off = <<1, 0, 0>>
    /\ params[<<"model", "layers", "1", "q_norm", "weight">>].off = <<0, 0, 0>>
    /\ params[<<"model", "layers", "0", "mamba", "b_layernorm", "weight">>].off
          = <<0, 0, 0>>
    /\ params[<<"model", "layers", "0", "mamba", "dt_layernorm", "weight">>].off
          = <<0, 0, 0>>

InProjParams ==
    { name \in DOMAIN params :
        /\ Len(name) >= 3
        /\ SubSeq(name, Len(name) - 2, Len(name)) = <<"mamba", "in_proj", "weight">> }

\* Entry (row, col) of a matrix stored in row-major order, both from 0.
Entry(t, row, col) == t.data[row * t.shape[2] + col + 1]

\* The checkpoint tensor of the merged projection: entry (row, col) holds
\* row * Width + col + 1, so every entry tells where it came from.
CkptEntry(row, col) == row * Width + col + 1

\* The checkpoint row an entry comes from.
CkptRow(entry) == (entry - 1) \div Width

\* C18: the merged gate / pre-convolution weight is hydrated as a row
\* permutation of the checkpoint tensor: runtime row h * head_width + j is
\* checkpoint row h * 2 * head_width + j, runtime row
\* heads * head_width + h * head_width + j is checkpoint row
\* h * 2 * head_width + head_width + j, the columns keep their order and
\* every checkpoint row appears exactly once; hence the first half of the
\* rows holds the gate rows of all heads and the second half the
\* pre-convolution rows.
C18_InProjRegroup ==
    \A name \in InProjParams : IsHydrated(name) =>
        /\ params[name].shape = <<2 * NumHeads * HeadWidth, Width>>
        /\ Len(params[name].data) = 2 * NumHeads * HeadWidth * Width
        /\ \A h \in 0..(NumHeads - 1), j \in 0..(HeadWidth - 1), k \in 0..(Width - 1) :
              /\ Entry(params[name], h * HeadWidth + j, k)
                    = CkptEntry(h * 2 * HeadWidth + j, k)
              /\ Entry(params[name], NumHeads * HeadWidth + h * HeadWidth + j, k)
                    = CkptEntry(h * 2 * HeadWidth + HeadWidth + j, k)
        /\ { CkptRow(Entry(params[name], r, 0)) : r \in 0..(2 * NumHeads * HeadWidth - 1) }
              = 0..(2 * NumHeads * HeadWidth - 1)
        /\ \A r \in 0..(2 * NumHeads * HeadWidth - 1), k \in 0..(Width - 1) :
              /\ Entry(params[name], r, k)
                    = CkptEntry(CkptRow(Entry(params[name], r, 0)), k)
              /\ (r < NumHeads * HeadWidth)
                    <=> (CkptRow(Entry(params[name], r, 0)) % (2 * HeadWidth) < HeadWidth)

\* The merged projection of the Recurrent layer 0 has been hydrated, from a
\* checkpoint tensor of more than one head and more than one row per head.
C18_Witness ==
    /\ IsHydrated(<<"model", "layers", "0", "mamba", "in_proj", "weight">>)
    /\ NumHeads >= 2 /\ HeadWidth >= 2 /\ Width >= 2
    /\ load_pc = "returned"

----------------------------------------------------------------------------
(* Plamo2MambaMixer (plamo2.py:204-386) on one tensor-parallel worker.     *)
(* The Parameters are fixed integer tables, the arithmetic is modulo       *)
(* Modulus.  A token's hidden state is a vector of Width entries, the      *)
(* intermediate streams have IntermediateSize channels.                    *)

\* plamo2.py:213-216
IntermediateSize == NumHeads * HeadWidth

\* The head a channel belongs to, both counted from 1.
HeadOf(c) == ((c - 1) \div HeadWidth) + 1

\* The tuple <<Op(1), ..., Op(n)>>, and the sum Op(1) + ... + Op(n).
RECURSIVE Tabulate(_, _)
Tabulate(Op(_), n) == IF n = 0 THEN <<>> ELSE Append(Tabulate(Op, n - 1), Op(n))

RECURSIVE SumOf(_, _)
SumOf(Op(_), n) == IF n = 0 THEN 0 ELSE SumOf(Op, n - 1) + Op(n)

\* The weights of in_proj, conv1d, x_proj, dt_proj and out_proj, the bias of
\* dt_proj, and the Parameters A and D (plamo2.py:222-272).  A and D hold
\* one value per head, repeated over the channels of the head.
in_proj_weight(k, j) == (k + 2 * j) % Modulus

conv_weight(c, k) == 1 + ((c + k) % (Modulus - 1))

x_proj_weight(r, c) == (r * c + 1) % Modulus

dt_proj_weight(h, r) == (h + r) % Modulus

dt_proj_bias(h) == (2 * h + 1) % Modulus

out_proj_weight(j, c) == (j + c) % Modulus

A(c, n) == 1 + ((HeadOf(c) + n) % (Modulus - 1))

D(c) == (HeadOf(c) + 1) % Modulus

\* exp and softplus inside the recurrence kernels, on integers.
Exp(z) == (2 * z + 1) % Modulus

Softplus(z) == (z * z + 1) % Modulus

\* dt_layernorm, b_layernorm, c_layernorm (plamo2.py:276-281, 333-335).
ScaleBy(x, scale) == Tabulate(LAMBDA i : (x[i] * scale) % Modulus, Len(x))

layernorm(x) == ScaleBy(x, 1 + SumOf(LAMBDA k : x[k] * x[k], Len(x)))

\* plamo2.py:289-290: in_proj, then the split into gate and hidden_states.
in_proj(h) ==
    Tabulate(LAMBDA k : SumOf(LAMBDA j : in_proj_weight(k, j) * h[j], Width)
                            % Modulus,
             2 * IntermediateSize)

GateOf(projected) == SubSeq(projected, 1, IntermediateSize)

HiddenOf(projected) ==
    SubSeq(projected, IntermediateSize + 1, 2 * IntermediateSize)

\* plamo2.py:325-332: x_proj, then the split into B, C and time_step.
x_proj(u) ==
    Tabulate(LAMBDA r : SumOf(LAMBDA c : x_proj_weight(r, c) * u[c],
                              IntermediateSize) % Modulus,
             2 * DState + TimeStepRank)

SplitB(ssm_parameters) == SubSeq(ssm_parameters, 1, DState)

SplitC(ssm_parameters) == SubSeq(ssm_parameters, DState + 1, 2 * DState)

SplitTimeStep(ssm_parameters) ==
    SubSeq(ssm_parameters, 2 * DState + 1, 2 * DState + TimeStepRank)

\* plamo2.py:337: dt_proj without its bias, one value per head.
dt_proj(time_step) ==
    Tabulate(LAMBDA h : SumOf(LAMBDA r : dt_proj_weight(h, r) * time_step[r],
                              TimeStepRank) % Modulus,
             NumHeads)

\* Variant: the per-head steps are tiled over the channels.
BroadcastStep_tiled(per_head_step) ==
    Tabulate(LAMBDA c : per_head_step[((c - 1) % NumHeads) + 1], IntermediateSize)

\* plamo2.py:343-346: the per-head step repeated over the channels of a head.
BroadcastStep(per_head_step) ==
    Tabulate(LAMBDA c : per_head_step[HeadOf(c)], IntermediateSize)

\* plamo2.py:347-350: the same for the bias of dt_proj.
time_proj_bias == Tabulate(LAMBDA c : dt_proj_bias(HeadOf(c)), IntermediateSize)

\* What the recurrence kernels receive for one token whose convolved hidden
\* state is u and whose gate is gate (plamo2.py:325-350).
\* discrete_time_step is the output of dt_proj, one value per head, before
\* the broadcast; delta is what the kernel receives.
ScanTermsOf(u, gate, ssm_parameters, discrete_time_step) ==
    [ x     |-> u,
      z     |-> gate,
      B     |-> layernorm(SplitB(ssm_parameters)),
      C     |-> layernorm(SplitC(ssm_parameters)),
      discrete_time_step |-> discrete_time_step,
      delta |-> BroadcastStep(discrete_time_step) ]

ScanTerms(u, gate, ssm_parameters) ==
    ScanTermsOf(u, gate, ssm_parameters,
                dt_proj(layernorm(SplitTimeStep(ssm_parameters))))

ScanInput(u, gate) == ScanTerms(u, gate, x_proj(u))

\* plamo2.py:384-385
out_proj(y) ==
    Tabulate(LAMBDA j : SumOf(LAMBDA c : out_proj_weight(j, c) * y[c],
                              IntermediateSize) % Modulus,
             Width)

----------------------------------------------------------------------------
(* The kernels forward calls, each on the rows of one sequence: the        *)
(* convolution window holds DConv - 1 values per channel, the recurrence   *)
(* state DState values per channel.                                        *)

ZeroWindow == Tabulate(LAMBDA c : Tabulate(LAMBDA k : 0, DConv - 1), IntermediateSize)

ZeroState == Tabulate(LAMBDA c : Tabulate(LAMBDA n : 0, DState), IntermediateSize)

\* The inputs of each channel the convolution reads: the window, or zeros
\* for a sequence without initial state, followed by the new inputs xs.
Padded(xs, window, has_init) ==
    Tabulate(LAMBDA c : (IF has_init THEN window[c] ELSE ZeroWindow[c])
                            \o Tabulate(LAMBDA t : xs[t][c], Len(xs)),
             IntermediateSize)

\* The activated output of channel c at position t of its padded inputs.
ConvAt(padded_c, c, t) ==
    Silu(SumOf(LAMBDA k : conv_weight(c, k) * padded_c[t + k - 1], DConv)
            % Modulus)

ConvOver(padded, len) ==
    [ out        |-> Tabulate(LAMBDA t :
                         Tabulate(LAMBDA c : ConvAt(padded[c], c, t),
                                  IntermediateSize),
                         len),
      conv_state |-> Tabulate(LAMBDA c : SubSeq(padded[c], len + 1,
                                                len + DConv - 1),
                              IntermediateSize) ]

\* causal_conv1d_fn: the causal convolution over the new inputs of one
\* sequence; the last DConv - 1 inputs are written back to the window.
causal_conv1d_fn(xs, window, has_init) ==
    ConvOver(Padded(xs, window, has_init), Len(xs))

\* causal_conv1d_update: one new input against the window, which is shifted.
causal_conv1d_update(x, window) ==
    [ out        |-> Tabulate(LAMBDA c : ConvAt(window[c] \o <<x[c]>>, c, 1),
                              IntermediateSize),
      conv_state |-> Tabulate(LAMBDA c : Tail(window[c] \o <<x[c]>>),
                              IntermediateSize) ]

\* The discretization step of channel c for one token: softplus of the step
\* plus the bias (delta_softplus / dt_softplus).
StepOf(term, bias, c) == Softplus(term.delta[c] + bias[c])

\* The product of the decay factors of the tokens from..to.
RECURSIVE Decay(_, _, _, _, _, _)
Decay(terms, bias, c, n, from, to) ==
    IF from > to THEN 1
    ELSE (Exp(StepOf(terms[to], bias, c) * A(c, n))
            * Decay(terms, bias, c, n, from, to - 1)) % Modulus

Drive(term, bias, c, n) == StepOf(term, bias, c) * term.B[n] * term.x[c]

\* The recurrence state after token t, unrolled from the state s0.
StateAt(terms, bias, s0, c, n, t) ==
    (Decay(terms, bias, c, n, 1, t) * s0[c][n]
       + SumOf(LAMBDA u : Decay(terms, bias, c, n, u + 1, t)
                              * Drive(terms[u], bias, c, n), t)) % Modulus

\* y = C . state + D * x, gated by silu(z).
Readout(term, state_c, c) ==
    ((SumOf(LAMBDA n : term.C[n] * state_c[n], DState) + D(c) * term.x[c])
        * Silu(term.z[c])) % Modulus

\* The states after every token: token -> channel -> state.
StatesFrom(terms, bias, s0) ==
    Tabulate(LAMBDA t :
                 Tabulate(LAMBDA c :
                              Tabulate(LAMBDA n : StateAt(terms, bias, s0, c, n, t),
                                       DState),
                          IntermediateSize),
             Len(terms))

ScanOut(terms, states) ==
    [ out       |-> Tabulate(LAMBDA t :
                        Tabulate(LAMBDA c : Readout(terms[t], states[t][c], c),
                                 IntermediateSize),
                        Len(terms)),
      ssm_state |-> states[Len(terms)] ]

\* selective_scan_fn: the recurrence over the new tokens of one sequence,
\* from its state row or from zero; the final state is written back.
selective_scan_fn(terms, state, bias, has_init) ==
    ScanOut(terms, StatesFrom(terms, bias, IF has_init THEN state ELSE ZeroState))

UpdateOut(term, new_state) ==
    [ out       |-> Tabulate(LAMBDA c : Readout(term, new_state[c], c),
                             IntermediateSize),
      ssm_state |-> new_state ]

\* selective_state_update: one step of the recurrence on the state row.
selective_state_update(term, state, bias) ==
    UpdateOut(term,
              Tabulate(LAMBDA c :
                  Tabulate(LAMBDA n :
                      (state[c][n] * Exp(StepOf(term, bias, c) * A(c, n))
                         + Drive(term, bias, c, n)) % Modulus,
                      DState),
                  IntermediateSize))

----------------------------------------------------------------------------
(* Plamo2MambaMixer.forward (plamo2.py:283-386).  A call carries the       *)
(* hidden states of the new tokens of its sequences, concatenated, the     *)
(* slot of each sequence (state_indices_tensor) and the attention metadata *)
(* (query_start_loc, context_lens_tensor: NoTensor stands for None).       *)

\* Variant: a context of one token is taken for no context.
has_initial_state_gt1(context_len) == context_len > 1

\* plamo2.py:310 and 366: context_lens_tensor > 0.
has_initial_state(context_len) == context_len > 0

\* Variant: a call with one new token per sequence is taken for a decode
\* call whatever its metadata.
is_prefill_multi(call) ==
    /\ call.query_start_loc # NoTensor /\ call.context_lens_tensor # NoTensor
    /\ Len(call.hidden_states) > Len(call.state_indices_tensor)

\* plamo2.py:296-297 and 352-353
is_prefill(call) ==
    call.query_start_loc # NoTensor /\ call.context_lens_tensor # NoTensor

\* The new tokens of the sequence at position i of a prefill call.
QueryOf(call, i) ==
    SubSeq(call.hidden_states,
           call.query_start_loc[i] + 1, call.query_start_loc[i + 1])

\* The prefill branch for one sequence (plamo2.py:289, 304-312, 325-350,
\* 354-367, 384-385).
\* Besides the results, the record keeps what the kernels were given: the
\* recurrence inputs of every token and the has_initial_state flags.
PrefillOut(conv, terms, scan, context_len) ==
    [ out        |-> Tabulate(LAMBDA t : out_proj(scan.out[t]), Len(scan.out)),
      conv_state |-> conv.conv_state,
      ssm_state  |-> scan.ssm_state,
      terms      |-> terms,
      conv_has_initial_state |-> has_initial_state(context_len),
      scan_has_initial_state |-> has_initial_state(context_len) ]

PrefillTerms(conv, terms, state, context_len) ==
    PrefillOut(conv, terms,
               selective_scan_fn(terms, state, time_proj_bias,
                                 has_initial_state(context_len)),
               context_len)

PrefillScan(projected, conv, state, context_len) ==
    PrefillTerms(conv,
                 Tabulate(LAMBDA t : ScanInput(conv.out[t], GateOf(projected[t])),
                          Len(projected)),
                 state, context_len)

PrefillConv(projected, window, state, context_len) ==
    PrefillScan(projected,
                causal_conv1d_fn(
                    Tabulate(LAMBDA t : HiddenOf(projected[t]), Len(projected)),
                    window, has_initial_state(context_len)),
                state, context_len)

PrefillSeq(hidden_states, window, state, context_len) ==
    PrefillConv(Tabulate(LAMBDA t : in_proj(hidden_states[t]), Len(hidden_states)),
                window, state, context_len)

\* The decode branch for one sequence (plamo2.py:289, 314-321, 325-350,
\* 369-381, 384-385).
\* The update kernels take no has_initial_state flag: they always start
\* from the rows of the slot.
DecodeOut(conv, term, scan) ==
    [ out        |-> <<out_proj(scan.out)>>,
      conv_state |-> conv.conv_state,
      ssm_state  |-> scan.ssm_state,
      terms      |-> <<term>>,
      conv_has_initial_state |-> TRUE,
      scan_has_initial_state |-> TRUE ]

DecodeTerm(conv, term, state) ==
    DecodeOut(conv, term, selective_state_update(term, state, time_proj_bias))

DecodeScan(projected, conv, state) ==
    DecodeTerm(conv, ScanInput(conv.out, GateOf(projected)), state)

DecodeConv(projected, window, state) ==
    DecodeScan(projected,
               causal_conv1d_update(HiddenOf(projected), window), state)

DecodeSeq(hidden_state, window, state) ==
    DecodeConv(in_proj(hidden_state), window, state)

\* Variant: the kernels take the rows at the position of the sequence in
\* the batch instead of the rows of its slot.
ForwardAt_by_position(call, i, conv, ssm) ==
    IF is_prefill(call)
    THEN PrefillSeq(QueryOf(call, i), conv[i], ssm[i],
                    call.context_lens_tensor[i])
    ELSE DecodeSeq(call.hidden_states[i], conv[i], ssm[i])

\* What forward computes for the sequence at position i of the call.
ForwardAt(call, i, conv, ssm) ==
    IF is_prefill(call)
    THEN PrefillSeq(QueryOf(call, i),
                    conv[call.state_indices_tensor[i]],
                    ssm[call.state_indices_tensor[i]],
                    call.context_lens_tensor[i])
    ELSE DecodeSeq(call.hidden_states[i],
                   conv[call.state_indices_tensor[i]],
                   ssm[call.state_indices_tensor[i]])

RECURSIVE Flatten(_)
Flatten(seqs) == IF seqs = <<>> THEN <<>> ELSE Head(seqs) \o Flatten(Tail(seqs))

\* The position of a call that names the slot.
PositionOf(call, slot) ==
    CHOOSE i \in 1..Len(call.state_indices_tensor) :
        call.state_indices_tensor[i] = slot

Touched(call) ==
    { call.state_indices_tensor[i] : i \in 1..Len(call.state_indices_tensor) }

\* forward: the outputs of all tokens, and the cache with the rows of the
\* call's slots rewritten in place.
ForwardResult(call, conv, ssm, per) ==
    [ out        |-> Flatten(Tabulate(LAMBDA i : per[i].out, Len(per))),
      conv_state |-> [slot \in DOMAIN conv |->
                        IF slot \in Touched(call)
                        THEN per[PositionOf(call, slot)].conv_state
                        ELSE conv[slot]],
      ssm_state  |-> [slot \in DOMAIN ssm |->
                        IF slot \in Touched(call)
                        THEN per[PositionOf(call, slot)].ssm_state
                        ELSE ssm[slot]],
      conv_mode  |-> IF is_prefill(call) THEN "prefill" ELSE "decode",
      scan_mode  |-> IF is_prefill(call) THEN "prefill" ELSE "decode",
      per        |-> per ]

forward(call, conv, ssm) ==
    ForwardResult(call, conv, ssm,
                  Tabulate(LAMBDA i : ForwardAt(call, i, conv, ssm),
                           Len(call.state_indices_tensor)))

----------------------------------------------------------------------------
(* The callers of forward: two sequences, each in a slot of its own, are   *)
(* fed chunk by chunk.  The cache is allocated uninitialised: the rows of  *)
(* slot 1 hold zeros, the others what an earlier owner left there.         *)

Seqs == {"a", "b"}

Slots == 1..NumSlots

\* The number of tokens of a sequence: "b" is a short one.
SeqLen(s) == IF s = "a" THEN MaxSeqLen ELSE 2

\* The contents of the sequences under study: the hidden states of their
\* tokens.
SeqContents ==
    { [s \in Seqs |->
          Tabulate(LAMBDA t :
                       Tabulate(LAMBDA j : IF s = "a"
                                           THEN (j * k + t * t) % Modulus
                                           ELSE (t + j) % Modulus,
                                Width),
                   SeqLen(s))] :
      k \in 1..2 }

SlotMaps ==
    { [s \in Seqs |-> IF s = "a" THEN pair[1] ELSE pair[2]] :
      pair \in { <<1, 2>>, <<NumSlots, 1>> } }

StaleWindow ==
    Tabulate(LAMBDA c : Tabulate(LAMBDA k : (c + k) % Modulus, DConv - 1),
             IntermediateSize)

StaleState ==
    Tabulate(LAMBDA c : Tabulate(LAMBDA n : 1 + ((c * n) % (Modulus - 1)), DState),
             IntermediateSize)

\* The batches of a call: the sequences it serves, in the call's order.
Batches ==
    { b \in UNION { [1..k -> Seqs] : k \in 1..Cardinality(Seqs) } :
        \A i, j \in DOMAIN b : i # j => b[i] # b[j] }

\* Which of the two metadata tensors a call carries.
MetaKinds == [ query_start_loc : BOOLEAN, context_lens_tensor : BOOLEAN ]

RECURSIVE Starts(_, _)
Starts(lens, k) == IF k = 0 THEN 0 ELSE Starts(lens, k - 1) + lens[k]

\* The call the model runner makes for a batch with lens[i] new tokens of
\* the sequence at position i.
MakeCall(kind, batch, lens) ==
    [ hidden_states |->
          Flatten(Tabulate(LAMBDA i : SubSeq(seq_tokens[batch[i]],
                                             seq_done[batch[i]] + 1,
                                             seq_done[batch[i]] + lens[i]),
                           Len(batch))),
      state_indices_tensor |-> [i \in 1..Len(batch) |-> seq_slot[batch[i]]],
      query_start_loc |->
          IF kind.query_start_loc
          THEN [i \in 1..(Len(batch) + 1) |-> Starts(lens, i - 1)]
          ELSE NoTensor,
      context_lens_tensor |->
          IF kind.context_lens_tensor
          THEN [i \in 1..Len(batch) |-> seq_done[batch[i]]]
          ELSE NoTensor ]

\* The new-token counts a call may carry: any number in a prefill call, one
\* per sequence in a decode call.
QueryLens(kind, batch) ==
    { lens \in [1..Len(batch) -> 1..MaxSeqLen] :
        \A i \in 1..Len(batch) :
            /\ seq_done[batch[i]] + lens[i] <= SeqLen(batch[i])
            /\ (kind.query_start_loc /\ kind.context_lens_tensor) \/ lens[i] = 1 }

InBatch(batch, s) == \E i \in 1..Len(batch) : batch[i] = s

IndexIn(batch, s) == CHOOSE i \in 1..Len(batch) : batch[i] = s

\* What is remembered, per sequence, of the last forward call it was part
\* of: the call's metadata, the kernels that ran and what they were given
\* for the sequence (the per-head steps and the broadcast steps of its
\* tokens, the has_initial_state flags).
NoForward ==
    [ conv |-> "", scan |-> "", position |-> 0,
      query_start_loc |-> FALSE, context_lens_tensor |-> FALSE,
      context_len |-> None,
      discrete_time_step |-> <<>>, delta |-> <<>>,
      conv_has_initial_state |-> FALSE, scan_has_initial_state |-> FALSE ]

LastForward(call, result, i) ==
    [ conv |-> result.conv_mode, scan |-> result.scan_mode, position |-> i,
      query_start_loc |-> call.query_start_loc # NoTensor,
      context_lens_tensor |-> call.context_lens_tensor # NoTensor,
      context_len |-> IF call.context_lens_tensor # NoTensor
                      THEN call.context_lens_tensor[i] ELSE None,
      discrete_time_step |->
          Tabulate(LAMBDA t : result.per[i].terms[t].discrete_time_step,
                   Len(result.per[i].terms)),
      delta |->
          Tabulate(LAMBDA t : result.per[i].terms[t].delta,
                   Len(result.per[i].terms)),
      conv_has_initial_state |-> result.per[i].conv_has_initial_state,
      scan_has_initial_state |-> result.per[i].scan_has_initial_state ]

\* The mixer reads nothing of the configuration but the sizes above: one
\* configuration with a Recurrent layer stands for all.
MixerConfig == CHOOSE c \in StackConfigsUpTo(2) : c.mamba_step = 2

InitMixer ==
    /\ phase = "mixer"
    /\ CacheIdle
    /\ config = MixerConfig
    /\ pc = "done"
    /\ layers_block_type = BlockTypeList(config)
    /\ block_type_set = TRUE
    /\ layers = BlockTypeList(config)
    /\ err = ""
    /\ StackIdle
    /\ LoadIdle
    /\ seq_tokens \in SeqContents
    /\ seq_slot \in SlotMaps
    /\ conv_state = [slot \in Slots |-> IF slot = 1 THEN ZeroWindow ELSE StaleWindow]
    /\ ssm_state = [slot \in Slots |-> IF slot = 1 THEN ZeroState ELSE StaleState]
    /\ seq_done = [s \in Seqs |-> 0]
    /\ seq_streamed = [s \in Seqs |-> TRUE]
    /\ seq_out = [s \in Seqs |-> <<>>]
    /\ seq_seeded = [s \in Seqs |-> TRUE]
    /\ mix_last = [s \in Seqs |-> NoForward]

\* One call of forward on a batch, and the caller's bookkeeping.
MixerForward ==
    /\ phase = "mixer"
    /\ \E kind \in MetaKinds, batch \in Batches :
       \E lens \in QueryLens(kind, batch) :
       \E call \in {MakeCall(kind, batch, lens)} :
       \E result \in {forward(call, conv_state, ssm_state)} :
          /\ conv_state' = result.conv_state
          /\ ssm_state' = result.ssm_state
          /\ mix_last' =
                [s \in Seqs |->
                    IF InBatch(batch, s)
                    THEN LastForward(call, result, IndexIn(batch, s))
                    ELSE mix_last[s]]
          /\ seq_out' =
                [s \in Seqs |->
                    IF InBatch(batch, s)
                    THEN seq_out[s]
                           \o SubSeq(result.out,
                                     Starts(lens, IndexIn(batch, s) - 1) + 1,
                                     Starts(lens, IndexIn(batch, s)))
                    ELSE seq_out[s]]
          /\ seq_done' =
                [s \in Seqs |->
                    IF InBatch(batch, s)
                    THEN seq_done[s] + lens[IndexIn(batch, s)] ELSE seq_done[s]]
          /\ seq_streamed' =
                [s \in Seqs |->
                    IF InBatch(batch, s)
                    THEN seq_streamed[s] /\ ~is_prefill(call)
                    ELSE seq_streamed[s]]
          /\ seq_seeded' =
                [s \in Seqs |->
                    IF InBatch(batch, s) /\ seq_done[s] = 0
                    THEN \/ is_prefill(call)
                         \/ /\ conv_state[seq_slot[s]] = ZeroWindow
                            /\ ssm_state[seq_slot[s]] = ZeroState
                    ELSE seq_seeded[s]]
    /\ UNCHANGED <<phase, seq_tokens, seq_slot, nonMixerVars>>

NextMixer == MixerForward

SpecMixer == InitMixer /\ [][NextMixer]_vars

----------------------------------------------------------------------------
(* Properties of Plamo2MambaMixer.forward.                                 *)

\* One batched-prefill pass over the first k tokens of a sequence, in a
\* slot that holds no initial state for it.
OnePass(s, k) ==
    PrefillSeq(SubSeq(seq_tokens[s], 1, k), StaleWindow, StaleState, 0)

\* The outputs of a sequence and the rows of its slot are those of pass.
SameAs(s, pass) ==
    /\ seq_out[s] = pass.out
    /\ conv_state[seq_slot[s]] = pass.conv_state
    /\ ssm_state[seq_slot[s]] = pass.ssm_state

\* C8: whatever way a sequence has been fed so far -- token by token in
\* streaming-decode mode against the window and state carried forward in its
\* slot, in prefill chunks, or a mix -- the outputs of its tokens, and the
\* window and state left in its slot, are those of one batched-prefill pass
\* over the same tokens.  (The rows carried forward to the first token of a
\* decode-only run are zeros, the rows of a sequence without inputs.)
C8_PrefillDecodeEquivalence ==
    \A s \in Seqs :
        (seq_done[s] > 0 /\ seq_seeded[s]) => SameAs(s, OnePass(s, seq_done[s]))

\* A whole sequence has gone through forward one token at a time in
\* streaming-decode mode, and has left a window and a state in its slot.
C8_Witness ==
    /\ seq_done["a"] = MaxSeqLen
    /\ seq_streamed["a"]
    /\ seq_seeded["a"]
    /\ ssm_state[seq_slot["a"]] # ZeroState
    /\ conv_state[seq_slot["a"]] # ZeroWindow

\* The head of channel c as the claim counts it, both from 1.
ChannelHead(c) == ((c - 1) \div HeadWidth) + 1

PerHeadTensor(values) == Tensor(<<NumHeads>>, values)

\* C16: for every channel c and every token t of a forward call the step
\* handed to the recurrence is the per-head step of head c div head_width
\* at that token, and the bias of channel c is the per-head bias of head
\* c div head_width; the decay and skip-scale broadcasts of the checkpoint
\* translator send the same per-head values to the same channels.
C16_StepBroadcast ==
    \A s \in Seqs : mix_last[s].conv # "" =>
        /\ Len(mix_last[s].delta) = Len(mix_last[s].discrete_time_step)
        /\ Len(mix_last[s].delta) >= 1
        /\ Len(time_proj_bias) = IntermediateSize
        /\ \A c \in 1..IntermediateSize :
              /\ time_proj_bias[c] = dt_proj_bias(ChannelHead(c))
              /\ time_proj_bias[c]
                    = BroadcastD(PerHeadTensor(Tabulate(LAMBDA h : dt_proj_bias(h),
                                                        NumHeads))).data[c]
        /\ \A t \in 1..Len(mix_last[s].delta) :
              /\ Len(mix_last[s].delta[t]) = IntermediateSize
              /\ Len(mix_last[s].discrete_time_step[t]) = NumHeads
              /\ \A c \in 1..IntermediateSize :
                    /\ mix_last[s].delta[t][c]
                          = mix_last[s].discrete_time_step[t][ChannelHead(c)]
                    /\ mix_last[s].delta[t][c]
                          = BroadcastD(PerHeadTensor(
                                mix_last[s].discrete_time_step[t])).data[c]
                    /\ \A n \in 1..DState :
                          mix_last[s].delta[t][c]
                            = BroadcastA(PerHeadTensor(
                                  mix_last[s].discrete_time_step[t]))
                                  .data[(c - 1) * DState + n]

\* A prefill call has handed the recurrence two tokens of a sequence, one
\* of them with different steps for the first two heads; a decode call has
\* done the same for the other sequence.
C16_Witness ==
    /\ mix_last["a"].scan = "prefill"
    /\ Len(mix_last["a"].delta) >= 2
    /\ \E t \in 1..Len(mix_last["a"].delta) :
          mix_last["a"].discrete_time_step[t][1] # mix_last["a"].discrete_time_step[t][2]
    /\ mix_last["b"].scan = "decode"
    /\ mix_last["b"].discrete_time_step[1][1] # mix_last["b"].discrete_time_step[1][2]

\* C19: in one forward call the convolution and the recurrence run in the
\* same mode, batched-prefill exactly when the call carries both the start
\* offsets and the context lengths and streaming-decode otherwise; in
\* prefill mode both kernels get the flag context_len > 0 for the sequence,
\* so neither starts a sequence with prior context from zero.
C19_SameMode ==
    \A s \in Seqs : mix_last[s].conv # "" =>
        /\ mix_last[s].conv = mix_last[s].scan
        /\ mix_last[s].conv \in {"prefill", "decode"}
        /\ mix_last[s].conv = "prefill"
              <=> (mix_last[s].query_start_loc /\ mix_last[s].context_lens_tensor)
        /\ mix_last[s].conv = "prefill" =>
              /\ mix_last[s].conv_has_initial_state = (mix_last[s].context_len > 0)
              /\ mix_last[s].scan_has_initial_state = (mix_last[s].context_len > 0)
              /\ mix_last[s].context_len = seq_done[s] - Len(mix_last[s].delta)
        /\ (mix_last[s].context_len > 0 \/ mix_last[s].conv = "decode") =>
              /\ mix_last[s].conv_has_initial_state
              /\ mix_last[s].scan_has_initial_state

\* The last call of one sequence was a prefill call that found prior
\* context, the last call of the other a decode call that carried the start
\* offsets but no context lengths.
C19_Witness ==
    /\ mix_last["a"].conv = "prefill" /\ mix_last["a"].context_len > 0
    /\ mix_last["a"].scan_has_initial_state
    /\ mix_last["b"].conv = "decode"
    /\ mix_last["b"].query_start_loc /\ ~mix_last["b"].context_lens_tensor

\* What forward computes for the next n tokens of sequence s when it is
\* alone: from the rows of its slot, in the given mode.
Alone(s, n, mode) ==
    IF mode = "prefill"
    THEN PrefillSeq(SubSeq(seq_tokens[s], seq_done[s] + 1, seq_done[s] + n),
                    conv_state[seq_slot[s]], ssm_state[seq_slot[s]], seq_done[s])
    ELSE DecodeSeq(seq_tokens[s][seq_done[s] + 1],
                   conv_state[seq_slot[s]], ssm_state[seq_slot[s]])

Advanced(s) == seq_done'[s] > seq_done[s]

\* One forward call leaves the rows of the slots it does not name as they
\* were, and gives every sequence it names the outputs and the rows that
\* the sequence gets alone from the rows of its own slot.
ForwardFrame ==
    /\ \A slot \in Slots :
          (\A s \in Seqs : Advanced(s) => seq_slot[s] # slot) =>
              /\ conv_state'[slot] = conv_state[slot]
              /\ ssm_state'[slot] = ssm_state[slot]
    /\ \A s \in Seqs :
          Advanced(s) =>
              \E alone \in {Alone(s, seq_done'[s] - seq_done[s], mix_last'[s].conv)} :
                  /\ seq_out'[s] = seq_out[s] \o alone.out
                  /\ conv_state'[seq_slot[s]] = alone.conv_state
                  /\ ssm_state'[seq_slot[s]] = alone.ssm_state
    /\ \A s \in Seqs : ~Advanced(s) => seq_out'[s] = seq_out[s]

\* C17: a forward call reads and writes the window and state rows of the
\* slots in its slot-index map only: the rows of every other slot stay as
\* they were, and what a sequence gets does not depend on the slot it is
\* in, nor on the order and the contents of the other sequences of the call.
C17_SlotFrame == [][phase = "mixer" => ForwardFrame]_vars

\* Both sequences have gone through one batched call, the second sequence
\* of the call in the last slot with prior context, and the rows of the
\* slot between them are still those of its earlier owner.
C17_Witness ==
    /\ mix_last["a"].position = 2 /\ mix_last["a"].context_len > 0
    /\ mix_last["b"].position = 1 /\ mix_last["b"].context_len = 0
    /\ Len(mix_last["b"].delta) = SeqLen("b") /\ seq_done["b"] = SeqLen("b")
    /\ seq_slot["a"] = NumSlots /\ seq_slot["b"] = 1
    /\ conv_state[2] = StaleWindow /\ ssm_state[2] = StaleState
    /\ conv_state[NumSlots] # StaleWindow

----------------------------------------------------------------------------
(* Plamo2ForCausalLM.forward (plamo2.py:775-792) and the other methods     *)
(* that use self.mamba_cache, called one after the other on one instance.  *)
(* The configuration carries the sizes of the mixer; a call carries the    *)
(* number of tokens of its batch.                                          *)

MambaSizes ==
    [ mamba_num_heads      : {NumHeads - 1, NumHeads},
      hidden_size_per_head : {HeadWidth - 1, HeadWidth},
      mamba_d_conv         : {DConv - 1, DConv},
      mamba_d_state        : {DState - 1, DState} ]

CacheConfigs ==
    { [MixerConfig EXCEPT !.tp_size = w] @@ m : w \in 1..MaxTP, m \in MambaSizes }

\* get_num_layers_by_block_type(parallel_config, LayerBlockType.mamba): the
\* Recurrent layers among the layers this process owns.
num_mamba_layers(c) ==
    Cardinality({ j \in PPStart(c)..(PPEnd(c) - 1) : BlockTypeList(c)[j + 1] = "mamba" })

\* _get_mamba_cache_shape (plamo2.py:801-814)
conv_state_shape(c) ==
    << (c.mamba_num_heads * c.hidden_size_per_head) \div c.tp_size,
       c.mamba_d_conv - 1 >>

temporal_state_shape(c) ==
    << (c.mamba_num_heads * c.hidden_size_per_head) \div c.tp_size,
       c.mamba_d_state >>

\* MambaCacheManager(vllm_config, dtype, num_mamba_layers, conv_state_shape,
\* temporal_state_shape): a new manager; id tells the managers apart.
MambaCacheManager(id, c) ==
    [ id                   |-> id,
      num_mamba_layers     |-> num_mamba_layers(c),
      conv_state_shape     |-> conv_state_shape(c),
      temporal_state_shape |-> temporal_state_shape(c) ]

\* Variant: a manager is made for every call.
cache_is_missing_always(cache) == TRUE

\* plamo2.py:781: self.mamba_cache is None
cache_is_missing(cache) == cache = <<>>

InitCache ==
    /\ phase = "cache"
    /\ config \in CacheConfigs
    /\ pc = "done"
    /\ layers_block_type = BlockTypeList(config)
    /\ block_type_set = TRUE
    /\ layers = BlockTypeList(config)
    /\ err = ""
    /\ StackIdle
    /\ LoadIdle
    /\ MixerIdle
    /\ mamba_cache = <<>>
    /\ constructed = <<>>
    /\ forward_log = <<>>

\* forward on a batch of seq_len tokens: the manager is made if there is
\* none, then asked for the tensors of the run, which go to self.model.
Forward(seq_len) ==
    /\ phase = "cache"
    /\ Len(forward_log) < MaxForwards
    /\ \E made \in { IF cache_is_missing(mamba_cache)
                       THEN <<MambaCacheManager(Len(constructed) + 1, config)>>
                       ELSE <<>> } :
          /\ constructed' = constructed \o made
          /\ mamba_cache' = IF made = <<>> THEN mamba_cache ELSE made
          /\ forward_log' = Append(forward_log,
                                    [ method  |-> "forward",
                                      seq_len |-> seq_len,
                                      manager |-> mamba_cache' ])
    /\ UNCHANGED <<phase, nonCacheVars>>

\* copy_inputs_before_cuda_graphs and get_seqlen_agnostic_capture_inputs
\* (plamo2.py:794-799) hand the call to the manager there is; without one
\* the call raises and leaves the instance as it was.
CaptureInputs ==
    /\ phase = "cache"
    /\ Len(forward_log) < MaxForwards
    /\ mamba_cache # <<>>
    /\ forward_log' = Append(forward_log,
                              [ method  |-> "capture",
                                seq_len |-> 0,
                                manager |-> mamba_cache ])
    /\ UNCHANGED <<phase, mamba_cache, constructed, nonCacheVars>>

NextCache ==
    \/ \E seq_len \in 1..MaxSeqLen : Forward(seq_len)
    \/ CaptureInputs

SpecCache == InitCache /\ [][NextCache]_vars

ForwardCalls == { k \in 1..Len(forward_log) : forward_log[k].method = "forward" }

\* C20: over any sequence of forward calls on one instance exactly one
\* cache manager is constructed, by the first forward call, with the
\* buffer shapes (channels per worker, kernel width - 1) and (channels per
\* worker, state dimension) computed from the configuration and the worker
\* count; every later call uses that manager, whatever its token count.
C20_CacheBuiltOnce ==
    /\ Len(constructed) <= 1
    /\ Len(constructed) = 1 <=> ForwardCalls # {}
    /\ forward_log = <<>> => mamba_cache = <<>>
    /\ forward_log # <<>> =>
          /\ 1 \in ForwardCalls
          /\ mamba_cache = constructed
          /\ constructed[1].id = 1
          /\ constructed[1].conv_state_shape
                = << (config.mamba_num_heads * config.hidden_size_per_head)
                        \div config.tp_size,
                     config.mamba_d_conv - 1 >>
          /\ constructed[1].temporal_state_shape
                = << (config.mamba_num_heads * config.hidden_size_per_head)
                        \div config.tp_size,
                     config.mamba_d_state >>
          /\ \A k \in 1..Len(forward_log) : forward_log[k].manager = <<constructed[1]>>

\* Three forward calls with one, two and three tokens on two workers have
\* gone through the one manager.
C20_Witness ==
    /\ Len(forward_log) = 3
    /\ \A k \in 1..3 : forward_log[k].method = "forward" /\ forward_log[k].seq_len = k
    /\ config.tp_size = 2
    /\ config.mamba_num_heads * config.hidden_size_per_head >= 2
    /\ Len(constructed) = 1
    /\ forward_log[3].manager = forward_log[1].manager

====
